---- MODULE Spec2Model ----
(***************************************************************************)
(* Permission resolution and grant mutation of the outline fork:           *)
(*   server/services/permissions/PermissionResolver.ts   (resolver)        *)
(*   server/utils/permissions.ts                         (calculator)      *)
(*   server/routes/api/{collections,documents}           (grant mutation)  *)
(*   the permissions table migration                     (unique index)    *)
(***************************************************************************)
EXTENDS Integers, Sequences, FiniteSets, TLC

NULL == "null"

\* ---------------------------------------------------------------- domains
Teams == {"t1", "t2"}
Users == {"u1", "u2"}
Groups == {"g1"}
Roles == {"editor", "viewer"}
Collections == {"c1", "c2"}
Documents == {"d1", "d2", "d3"}

\* rows the permissions table may hold
MaxPermissions == 2
\* rows the ancestry query may accumulate before the model stops following it
MaxAncestry == 4

\* enum PermissionSubjectType
PermissionSubjectType == {"user", "group", "role"}
\* enum PermissionResourceType
PermissionResourceType == {"workspace", "collection", "document"}
\* enum PermissionLevel
PermissionLevel == {"read", "edit", "manage"}
\* enum PermissionInheritMode
PermissionInheritMode == {"self", "children"}

VARIABLES
  permissions,  \* the committed rows of the permissions table, in insertion order
  documents,    \* documents table: teamId, collectionId, parentDocumentId per id
  users,        \* users table: teamId and role per id
  groupUsers,   \* group_users table: set of <<groupId, userId>>
  call,         \* the resolver / calculator call in progress and its result
  collections,  \* the collections table: team, owner, state
  teams,        \* the teams table: whether the team can be changed
  requests,     \* per request process: the handler it runs and its transaction
  nextId,       \* the next id (and creation time) a new row gets
  snapshots     \* history: the committed states a call in progress overlapped

vars == <<permissions, documents, users, groupUsers, collections, teams, call, requests, nextId, snapshots>>

\* ------------------------------------------------------------ Permission
\* A row of the permissions table (model Permission / createTable).
\* subject is <<subjectType, subjectId, subjectRole>>, resource is
\* <<resourceType, resourceId>>.
Permission(id, teamId, subject, resource, permission, inheritMode, createdAt, deletedAt) ==
  [id |-> id, teamId |-> teamId,
   subjectType |-> subject[1], subjectId |-> subject[2],
   subjectRole |-> subject[3],
   resourceType |-> resource[1], resourceId |-> resource[2],
   permission |-> permission, inheritMode |-> inheritMode,
   createdAt |-> createdAt, deletedAt |-> deletedAt]

\* CHECK permissions_subject_consistency_check
SubjectConsistencyCheck(p) ==
  \/ p.subjectType = "role" /\ p.subjectRole # NULL /\ p.subjectId = NULL
  \/ p.subjectType \in {"user", "group"} /\ p.subjectId # NULL
     /\ p.subjectRole = NULL

\* CHECK permissions_resource_consistency_check
ResourceConsistencyCheck(p) ==
  \/ p.resourceType = "workspace" /\ p.resourceId = NULL
  \/ p.resourceType \in {"collection", "document"} /\ p.resourceId # NULL

Rows(table) == {table[i] : i \in 1..Len(table)}

\* ------------------------------------------------------------ ordering
\* ORDER BY "resourceType" ASC compares the stored strings
ResourceTypeOrder(t) ==
  CASE t = "collection" -> 0 [] t = "document" -> 1 [] t = "workspace" -> 2

\* ORDER BY "subjectType" ASC compares the stored strings
SubjectTypeOrder(t) ==
  CASE t = "group" -> 0 [] t = "role" -> 1 [] t = "user" -> 2

\* DEFAULT_ORDER: resourceType ASC, subjectType ASC, createdAt ASC
DefaultOrderLeq(a, b) ==
  \/ ResourceTypeOrder(a.resourceType) < ResourceTypeOrder(b.resourceType)
  \/ /\ a.resourceType = b.resourceType
     /\ \/ SubjectTypeOrder(a.subjectType) < SubjectTypeOrder(b.subjectType)
        \/ /\ a.subjectType = b.subjectType
           /\ a.createdAt <= b.createdAt

\* Permission.findAll({ where, order: DEFAULT_ORDER }): every matching row
\* once, in an order consistent with DEFAULT_ORDER (rows that tie on all
\* three keys come back in an order the database chooses).
FindAllOrdered(matching) ==
  {s \in [1..Cardinality(matching) -> matching] :
     /\ \A i, j \in 1..Cardinality(matching) : i # j => s[i] # s[j]
     /\ \A i, j \in 1..Cardinality(matching) :
          i < j => DefaultOrderLeq(s[i], s[j])}

\* ------------------------------------------------------------ resolver
\* the object literal built by permissions.map(...) in both resolve methods
ResolvedPermission(p, source) ==
  [id |-> p.id, teamId |-> p.teamId,
   subjectType |-> p.subjectType, subjectId |-> p.subjectId,
   subjectRole |-> p.subjectRole,
   resourceType |-> p.resourceType, resourceId |-> p.resourceId,
   permission |-> p.permission, inheritMode |-> p.inheritMode,
   source |-> source]

\* the deletedAt condition left out of the where clause
DeletedAtAny(p) == TRUE

\* deletedAt: null in the where clause of both findAll calls
DeletedAtIsNull(p) == p.deletedAt = NULL

\* resolveForCollection with the inheritMode condition of the workspace
\* branch left out
ResolveForCollectionWhereAnyMode(p, teamId, collectionId) ==
  /\ p.teamId = teamId
  /\ DeletedAtIsNull(p)
  /\ \/ p.resourceType = "collection" /\ p.resourceId = collectionId
     \/ p.resourceType = "workspace" /\ p.resourceId = NULL

\* resolveForCollection with the workspace branch left out
ResolveForCollectionWhereNoWorkspace(p, teamId, collectionId) ==
  /\ p.teamId = teamId
  /\ DeletedAtIsNull(p)
  /\ p.resourceType = "collection" /\ p.resourceId = collectionId

\* where clause of resolveForCollection
ResolveForCollectionWhere(p, teamId, collectionId) ==
  /\ p.teamId = teamId
  /\ DeletedAtIsNull(p)
  /\ \/ p.resourceType = "collection" /\ p.resourceId = collectionId
     \/ /\ p.resourceType = "workspace"
        /\ p.resourceId = NULL
        /\ p.inheritMode = "children"

\* source tag computed by resolveForCollection
ResolveForCollectionSource(p, collectionId) ==
  IF p.resourceType = "collection" /\ p.resourceId = collectionId
  THEN "direct" ELSE "inherited"

\* ancestorIds.filter((id) => id !== documentId)
InheritedAncestorIds(ancestorIds, documentId) ==
  {ancestorIds[i] : i \in 1..Len(ancestorIds)} \ {documentId}

\* resolveForDocument with the inheritMode condition of the ancestor branch
\* left out
ResolveForDocumentWhereAnyMode(p, teamId, documentId, collectionId, ancestorIds) ==
  /\ p.teamId = teamId
  /\ DeletedAtIsNull(p)
  /\ \/ /\ p.resourceType = "workspace"
        /\ p.resourceId = NULL
        /\ p.inheritMode = "children"
     \/ p.resourceType = "document" /\ p.resourceId = documentId
     \/ /\ collectionId # NULL
        /\ p.resourceType = "collection"
        /\ p.resourceId = collectionId
        /\ p.inheritMode = "children"
     \/ /\ p.resourceType = "document"
        /\ p.resourceId \in InheritedAncestorIds(ancestorIds, documentId)

\* resolveForDocument with the inheritMode condition of the collection
\* branch left out
ResolveForDocumentWhereCollectionAnyMode(p, teamId, documentId, collectionId, ancestorIds) ==
  /\ p.teamId = teamId
  /\ DeletedAtIsNull(p)
  /\ \/ /\ p.resourceType = "workspace"
        /\ p.resourceId = NULL
        /\ p.inheritMode = "children"
     \/ p.resourceType = "document" /\ p.resourceId = documentId
     \/ /\ collectionId # NULL
        /\ p.resourceType = "collection"
        /\ p.resourceId = collectionId
     \/ /\ InheritedAncestorIds(ancestorIds, documentId) # {}
        /\ p.resourceType = "document"
        /\ p.resourceId \in InheritedAncestorIds(ancestorIds, documentId)
        /\ p.inheritMode = "children"

\* where clause of resolveForDocument (the disjunction it assembles)
ResolveForDocumentWhere(p, teamId, documentId, collectionId, ancestorIds) ==
  /\ p.teamId = teamId
  /\ DeletedAtIsNull(p)
  /\ \/ /\ p.resourceType = "workspace"
        /\ p.resourceId = NULL
        /\ p.inheritMode = "children"
     \/ p.resourceType = "document" /\ p.resourceId = documentId
     \/ /\ collectionId # NULL
        /\ p.resourceType = "collection"
        /\ p.resourceId = collectionId
        /\ p.inheritMode = "children"
     \/ /\ InheritedAncestorIds(ancestorIds, documentId) # {}
        /\ p.resourceType = "document"
        /\ p.resourceId \in InheritedAncestorIds(ancestorIds, documentId)
        /\ p.inheritMode = "children"

\* source tag computed by resolveForDocument
ResolveForDocumentSource(p, documentId) ==
  IF p.resourceType = "document" /\ p.resourceId = documentId
  THEN "direct" ELSE "inherited"

\* ------------------------------------------------------------ call state
\* skipMembershipId is optional: 0 stands for the parameter left undefined
\* (row ids start at 1)
NoMembershipId == 0

NoCall ==
  [op |-> "none", pc |-> "idle", teamId |-> NULL, userId |-> NULL,
   documentId |-> NULL, collectionId |-> NULL, permission |-> NULL,
   skipMembershipId |-> NoMembershipId, userRole |-> NULL, groupIds |-> {},
   ancestorIds |-> <<>>, resolved |-> <<>>,
   existingPermission |-> NULL, isElevated |-> FALSE,
   revokedAtStart |-> {}, action |-> NULL, resourceType |-> NULL,
   resourceId |-> NULL, grants |-> <<>>, allowedLevels |-> {},
   result |-> [truthy |-> FALSE, owner |-> NULL, grantIds |-> <<>>],
   allowed |-> FALSE, abilities |-> {}, entries |-> <<>>, offset |-> 0,
   limit |-> 0]

\* history kept with a call: the ids of the rows that were soft-deleted in
\* the committed table when the call started
Revoked(table) == {r.id : r \in {x \in Rows(table) : x.deletedAt # NULL}}

CallIdle == call.pc \in {"idle", "done"}

\* history kept with a call where `kept` is set: the committed states of
\* (documents, permissions) from the start of the call in progress on
NoSnapshots == [kept |-> FALSE, states |-> {}]

\* the history when a call starts
SnapshotsAtStart ==
  IF snapshots.kept
  THEN [snapshots EXCEPT !.states = {<<documents, permissions>>}]
  ELSE snapshots

\* the history when (docs, table) is committed
SnapshotsAfter(docs, table) ==
  IF snapshots.kept /\ ~CallIdle
  THEN [snapshots EXCEPT !.states = @ \cup {<<docs, table>>}]
  ELSE snapshots

\* PermissionResolver.resolveForCollection: one findAll, then the map
ResolveForCollection(teamId, collectionId) ==
  /\ CallIdle
  /\ LET matching == {p \in Rows(permissions) :
                        ResolveForCollectionWhere(p, teamId, collectionId)}
     IN \E rows \in FindAllOrdered(matching) :
          call' = [NoCall EXCEPT
                     !.op = "resolveForCollection", !.pc = "done",
                     !.teamId = teamId, !.collectionId = collectionId,
                     !.revokedAtStart = Revoked(permissions),
                     !.resolved =
                       [i \in 1..Len(rows) |->
                          ResolvedPermission(rows[i],
                            ResolveForCollectionSource(rows[i], collectionId))]]
  /\ UNCHANGED <<permissions, documents, users, groupUsers, collections, teams, requests, nextId, snapshots>>

\* PermissionResolver.resolveForDocument entered: findAncestorDocumentIds
\* starts with the non-recursive term of the CTE (the document's own row)
ResolveForDocumentBegin(teamId, documentId, collectionId) ==
  /\ CallIdle
  /\ call' = [NoCall EXCEPT
                !.op = "resolveForDocument", !.pc = "ancestry",
                !.teamId = teamId, !.documentId = documentId,
                !.collectionId = collectionId,
                !.revokedAtStart = Revoked(permissions),
                !.ancestorIds = <<documentId>>]
  /\ UNCHANGED <<permissions, documents, users, groupUsers, collections, teams, requests, nextId>>
  /\ snapshots' = SnapshotsAtStart

\* the row the recursive term of the CTE joins next
AncestryWorkingRow == call.ancestorIds[Len(call.ancestorIds)]

\* one iteration of the recursive term of WITH RECURSIVE ancestry (UNION ALL):
\* the parent of the last row is appended, whatever rows are there already
FindAncestorDocumentIdsStep ==
  /\ call.pc = "ancestry"
  /\ documents[AncestryWorkingRow].parentDocumentId # NULL
  /\ Len(call.ancestorIds) < MaxAncestry
  /\ call' = [call EXCEPT !.ancestorIds =
                Append(@, documents[AncestryWorkingRow].parentDocumentId)]
  /\ UNCHANGED <<permissions, documents, users, groupUsers, collections, teams, requests, nextId, snapshots>>

\* the CTE cut off after the parent: the grandparent is never joined
FindAncestorDocumentIdsReturnAfterParent ==
  /\ call.pc = "ancestry"
  /\ \/ documents[AncestryWorkingRow].parentDocumentId = NULL
     \/ Len(call.ancestorIds) >= 2
  /\ call' = [call EXCEPT !.pc = "findAll"]
  /\ UNCHANGED <<permissions, documents, users, groupUsers, collections, teams, requests, nextId, snapshots>>

\* the CTE is complete when an iteration produces no row; the query then
\* returns the accumulated ids
FindAncestorDocumentIdsReturn ==
  /\ call.pc = "ancestry"
  /\ documents[AncestryWorkingRow].parentDocumentId = NULL
  /\ call' = [call EXCEPT !.pc = "findAll"]
  /\ UNCHANGED <<permissions, documents, users, groupUsers, collections, teams, requests, nextId, snapshots>>

\* findAncestorDocumentIds has returned; Permission.findAll comes next
AncestryComplete == call.pc = "findAll"

\* rest of resolveForDocument once the ancestry query returned
ResolveForDocumentRows(table, teamId, documentId, collectionId, ancestorIds) ==
  LET matching == {p \in Rows(table) :
                     ResolveForDocumentWhere(p, teamId, documentId,
                                             collectionId, ancestorIds)}
  IN {[i \in 1..Len(rows) |->
         ResolvedPermission(rows[i],
                            ResolveForDocumentSource(rows[i], documentId))] :
        rows \in FindAllOrdered(matching)}

ResolveForDocumentReturn ==
  /\ call.op = "resolveForDocument"
  /\ AncestryComplete
  /\ \E resolved \in ResolveForDocumentRows(permissions, call.teamId,
                       call.documentId, call.collectionId, call.ancestorIds) :
       call' = [call EXCEPT !.pc = "done", !.resolved = resolved]
  /\ UNCHANGED <<permissions, documents, users, groupUsers, collections, teams, requests, nextId, snapshots>>

\* ------------------------------------------------------------ calculator
\* DocumentPermissionPriority: higher value takes precedence
DocumentPermissionPriority(permission) ==
  CASE permission = "Manage" -> 2
    [] permission = "Edit" -> 1
    [] permission = "Read" -> 0

\* the .map() of getDocumentPermission: PermissionLevel -> DocumentPermission
LevelToDocumentPermission(level) ==
  IF level = "manage" THEN "Manage"
  ELSE IF level = "edit" THEN "Edit"
  ELSE "Read"

\* the subject filter with group grants accepted without a membership check
SubjectMatchesAnyGroup(p, userId, userRole, groupIds) ==
  IF p.subjectType = "user" THEN p.subjectId = userId
  ELSE IF p.subjectType = "role" THEN p.subjectRole = userRole
  ELSE p.subjectType = "group"

\* the subject filter with a role grant matching whatever the role
SubjectMatchesAnyRole(p, userId, userRole, groupIds) ==
  IF p.subjectType = "user" THEN p.subjectId = userId
  ELSE IF p.subjectType = "role" THEN TRUE
  ELSE IF p.subjectType = "group"
       THEN p.subjectId # NULL /\ p.subjectId \in groupIds
  ELSE FALSE

\* the subject filter of getDocumentPermission
SubjectMatches(p, userId, userRole, groupIds) ==
  IF p.subjectType = "user" THEN p.subjectId = userId
  ELSE IF p.subjectType = "role" THEN p.subjectRole = userRole
  ELSE IF p.subjectType = "group"
       THEN p.subjectId # NULL /\ p.subjectId \in groupIds
  ELSE FALSE

\* the skip filter left out
NotSkippedNever(p, skipMembershipId) == TRUE

\* .filter((permission) => permission.id !== skipMembershipId)
NotSkipped(p, skipMembershipId) == p.id # skipMembershipId

\* orderBy(permissions, priority, "desc")[0]: undefined for an empty list
HighestPermission(list) ==
  IF list = {} THEN NULL
  ELSE CHOOSE x \in list :
         \A y \in list :
           DocumentPermissionPriority(y) <= DocumentPermissionPriority(x)

\* getDocumentPermission after resolveForDocument returned `resolved`
GetDocumentPermissionResult(resolved, userId, userRole, groupIds, skipMembershipId) ==
  HighestPermission(
    {LevelToDocumentPermission(resolved[i].permission) :
       i \in {j \in 1..Len(resolved) :
                /\ NotSkipped(resolved[j], skipMembershipId)
                /\ SubjectMatches(resolved[j], userId, userRole, groupIds)}})

\* isElevatedPermission without its early return for no access
IsElevatedNoEarlyReturn(existingPermission, permission) ==
  /\ existingPermission # NULL
  /\ DocumentPermissionPriority(existingPermission)
       < DocumentPermissionPriority(permission)

\* isElevatedPermission comparing with <= instead of <
IsElevatedOrEqual(existingPermission, permission) ==
  IF existingPermission = NULL THEN TRUE
  ELSE DocumentPermissionPriority(existingPermission)
         <= DocumentPermissionPriority(permission)

\* isElevatedPermission once existingPermission is known
IsElevated(existingPermission, permission) ==
  IF existingPermission = NULL THEN TRUE
  ELSE DocumentPermissionPriority(existingPermission)
         < DocumentPermissionPriority(permission)

\* Group.filterByMember(userId): ids of the groups the user is in
GroupIdsOf(userId) == {g \in Groups : <<g, userId>> \in groupUsers}

\* getDocumentPermission entered: document, user and groups are loaded and
\* resolveForDocument is called with the user's team and the document's
\* collection
CalculatorBegin(op, userId, documentId, permission, skipMembershipId) ==
  /\ CallIdle
  /\ call' = [NoCall EXCEPT
                !.op = op, !.pc = "ancestry",
                !.userId = userId, !.documentId = documentId,
                !.permission = permission,
                !.skipMembershipId = skipMembershipId,
                !.teamId = users[userId].teamId,
                !.collectionId = documents[documentId].collectionId,
                !.userRole = users[userId].role,
                !.groupIds = GroupIdsOf(userId),
                !.revokedAtStart = Revoked(permissions),
                !.ancestorIds = <<documentId>>]
  /\ UNCHANGED <<permissions, documents, users, groupUsers, collections, teams, requests, nextId>>
  /\ snapshots' = SnapshotsAtStart

GetDocumentPermissionBegin(userId, documentId, skipMembershipId) ==
  CalculatorBegin("getDocumentPermission", userId, documentId, NULL,
                  skipMembershipId)

IsElevatedPermissionBegin(userId, documentId, permission, skipMembershipId) ==
  CalculatorBegin("isElevatedPermission", userId, documentId, permission,
                  skipMembershipId)

GetDocumentPermissionReturn ==
  /\ call.op = "getDocumentPermission"
  /\ AncestryComplete
  /\ \E resolved \in ResolveForDocumentRows(permissions, call.teamId,
                       call.documentId, call.collectionId, call.ancestorIds) :
       call' = [call EXCEPT
                  !.pc = "done", !.resolved = resolved,
                  !.existingPermission =
                    GetDocumentPermissionResult(resolved, call.userId,
                      call.userRole, call.groupIds, call.skipMembershipId)]
  /\ UNCHANGED <<permissions, documents, users, groupUsers, collections, teams, requests, nextId, snapshots>>

IsElevatedPermissionReturn ==
  /\ call.op = "isElevatedPermission"
  /\ AncestryComplete
  /\ \E resolved \in ResolveForDocumentRows(permissions, call.teamId,
                       call.documentId, call.collectionId, call.ancestorIds) :
       LET existingPermission ==
             GetDocumentPermissionResult(resolved, call.userId,
               call.userRole, call.groupIds, call.skipMembershipId)
       IN call' = [call EXCEPT
                     !.pc = "done", !.resolved = resolved,
                     !.existingPermission = existingPermission,
                     !.isElevated =
                       IsElevated(existingPermission, call.permission)]
  /\ UNCHANGED <<permissions, documents, users, groupUsers, collections, teams, requests, nextId, snapshots>>

\* ------------------------------------------------------------ policies
\* the acting user of a request, as read from the users table
Actor(userId) ==
  [id |-> userId, teamId |-> users[userId].teamId,
   role |-> users[userId].role]

\* the scope withPermissionGrants(userId): the active grants made directly on
\* the resource, in table order, group grants kept only for the groups of
\* userId
WithPermissionGrants(table, resourceType, resourceId, userId) ==
  LET Joined(p) ==
        /\ p.deletedAt = NULL
        /\ p.resourceType = resourceType
        /\ p.resourceId = resourceId
        /\ p.subjectType = "group" => <<p.subjectId, userId>> \in groupUsers
  IN SelectSeq(table, Joined)

\* the three names of CollectionPermission / DocumentPermission
PermissionValues == {"Read", "Edit", "Manage"}

\* what includesPermission returns: false, or a non-empty array that holds
\* either the owner marker of a resource or the ids of grants
IncludesResult(truthy, owner, grantIds) ==
  [truthy |-> truthy, owner |-> owner, grantIds |-> grantIds]

ReturnsFalse == IncludesResult(FALSE, NULL, <<>>)

\* matchesSubject with every role accepted
CollectionMatchesAnyRole(grant, user) ==
  IF grant.subjectType = "user" THEN grant.subjectId = user.id
  ELSE IF grant.subjectType = "role" THEN TRUE
  ELSE grant.subjectType = "group"

\* matchesSubject of the collection policy
CollectionMatchesSubject(grant, user) ==
  IF grant.subjectType = "user" THEN grant.subjectId = user.id
  ELSE IF grant.subjectType = "role" THEN grant.subjectRole = user.role
  ELSE grant.subjectType = "group"

\* matchesSubject of the document policy
DocumentMatchesSubject(grant, user) ==
  IF grant.subjectType = "user" THEN grant.subjectId = user.id
  ELSE IF grant.subjectType = "role" THEN grant.subjectRole = user.role
  ELSE grant.subjectType = "group"

\* the level of a grant in the vocabulary of the policies
MappedPermission(level) ==
  IF level = "manage" THEN "Manage"
  ELSE IF level = "edit" THEN "Edit"
  ELSE "Read"

\* the ids of a list of grants, in list order
IdsOf(grants) == [i \in 1..Len(grants) |-> grants[i].id]

\* includesPermission of the collection policy keeping the grants whose
\* level is not asked for
CollectionIncludesPermissionAnyLevel(collectionId, grants, user, levels) ==
  IF collectionId = NULL THEN ReturnsFalse
  ELSE IF /\ collections[collectionId].ownerId # NULL
          /\ collections[collectionId].ownerId = user.id
  THEN IncludesResult(TRUE, collectionId, <<>>)
  ELSE LET Kept(g) == CollectionMatchesSubject(g, user)
           grantIds == IdsOf(SelectSeq(grants, Kept))
       IN IF Len(grantIds) > 0
          THEN IncludesResult(TRUE, NULL, grantIds)
          ELSE ReturnsFalse

\* includesPermission of the collection policy; collectionId NULL is the
\* null collection, grants is collection.permissionGrants
CollectionIncludesPermission(collectionId, grants, user, levels) ==
  IF collectionId = NULL THEN ReturnsFalse
  ELSE IF /\ collections[collectionId].ownerId # NULL
          /\ collections[collectionId].ownerId = user.id
  THEN IncludesResult(TRUE, collectionId, <<>>)
  ELSE LET Kept(g) == /\ CollectionMatchesSubject(g, user)
                      /\ MappedPermission(g.permission) \in levels
           grantIds == IdsOf(SelectSeq(grants, Kept))
       IN IF Len(grantIds) > 0
          THEN IncludesResult(TRUE, NULL, grantIds)
          ELSE ReturnsFalse

\* includesPermission of the document policy; documentId NULL is the null
\* document, grants is document.permissionGrants
DocumentIncludesPermission(documentId, grants, user, levels) ==
  IF documentId = NULL THEN ReturnsFalse
  ELSE LET Kept(g) == /\ DocumentMatchesSubject(g, user)
                      /\ MappedPermission(g.permission) \in levels
           grantIds == IdsOf(SelectSeq(grants, Kept))
       IN IF Len(grantIds) > 0
          THEN IncludesResult(TRUE, NULL, grantIds)
          ELSE ReturnsFalse

\* the grants a collection / a document carries when a request of the user
\* has loaded it
CollectionGrants(collectionId, user) ==
  WithPermissionGrants(permissions, "collection", collectionId, user.id)

DocumentGrants(documentId, user) ==
  WithPermissionGrants(permissions, "document", documentId, user.id)

\* isTeamModel(actor, model), model given by its teamId (NULL: no model)
IsTeamModel(user, teamId) == teamId # NULL /\ user.teamId = teamId

\* isTeamMutable(actor)
IsTeamMutable(user) == teams[user.teamId].mutable

\* getters of a possibly null collection
CollectionTeamId(collectionId) ==
  IF collectionId = NULL THEN NULL ELSE collections[collectionId].teamId

CollectionIsActive(collectionId) ==
  /\ collectionId # NULL
  /\ collections[collectionId].archivedAt = NULL
  /\ collections[collectionId].deletedAt = NULL

\* getters of a possibly null document
DocumentTeamId(documentId) ==
  IF documentId = NULL THEN NULL ELSE documents[documentId].teamId

DocumentCollection(documentId) ==
  IF documentId = NULL THEN NULL ELSE documents[documentId].collectionId

DocumentCreatedById(documentId) ==
  IF documentId = NULL THEN NULL ELSE documents[documentId].createdById

DocumentIsDraft(documentId) ==
  documentId # NULL /\ documents[documentId].publishedAt = NULL

DocumentIsDeleted(documentId) ==
  documentId # NULL /\ documents[documentId].deletedAt # NULL

DocumentIsActive(documentId) ==
  /\ documentId # NULL
  /\ documents[documentId].archivedAt = NULL
  /\ documents[documentId].deletedAt = NULL

\* allow(User, "read", Collection)
CanReadCollection(user, collectionId) ==
  IF collectionId = NULL \/ user.teamId # collections[collectionId].teamId
  THEN FALSE
  ELSE CollectionIncludesPermission(collectionId,
         CollectionGrants(collectionId, user), user, PermissionValues).truthy

\* allow(User, ["readDocument", ...], Collection)
CanReadDocumentCollection(user, collectionId) ==
  IF collectionId = NULL \/ user.teamId # collections[collectionId].teamId
  THEN FALSE
  ELSE CollectionIncludesPermission(collectionId,
         CollectionGrants(collectionId, user), user, PermissionValues).truthy

\* allow(User, "updateDocument", Collection)
CanUpdateDocumentCollection(user, collectionId) ==
  IF \/ collectionId = NULL
     \/ ~IsTeamModel(user, CollectionTeamId(collectionId))
     \/ ~IsTeamMutable(user)
  THEN FALSE
  ELSE CollectionIncludesPermission(collectionId,
         CollectionGrants(collectionId, user), user,
         {"Edit", "Manage"}).truthy

\* allow(User, "deleteDocument", Collection)
CanDeleteDocumentCollection(user, collectionId) ==
  IF \/ collectionId = NULL
     \/ ~CollectionIsActive(collectionId)
     \/ ~IsTeamModel(user, CollectionTeamId(collectionId))
     \/ ~IsTeamMutable(user)
  THEN FALSE
  ELSE CollectionIncludesPermission(collectionId,
         CollectionGrants(collectionId, user), user, {"Manage"}).truthy

\* the update rule of collections satisfied by an Edit grant as well
CanUpdateCollectionWithEdit(user, collectionId) ==
  /\ collectionId # NULL
  /\ CollectionIsActive(collectionId)
  /\ CollectionIncludesPermission(collectionId,
       CollectionGrants(collectionId, user), user,
       {"Edit", "Manage"}).truthy

\* allow(User, ["update", "export", "archive"], Collection)
CanUpdateCollection(user, collectionId) ==
  /\ collectionId # NULL
  /\ CollectionIsActive(collectionId)
  /\ CollectionIncludesPermission(collectionId,
       CollectionGrants(collectionId, user), user, {"Manage"}).truthy

\* allow(User, "read", Document)
CanReadDocument(user, documentId) ==
  /\ IsTeamModel(user, DocumentTeamId(documentId))
  /\ \/ DocumentIncludesPermission(documentId,
          DocumentGrants(documentId, user), user, PermissionValues).truthy
     \/ /\ DocumentIsDraft(documentId)
        /\ user.id = DocumentCreatedById(documentId)
     \/ CanReadDocumentCollection(user, DocumentCollection(documentId))

\* the update rule of documents without its collection branch
CanUpdateDocumentNoCollection(user, documentId) ==
  /\ DocumentIsActive(documentId)
  /\ IsTeamMutable(user)
  /\ CanReadDocument(user, documentId)
  /\ \/ DocumentIncludesPermission(documentId,
          DocumentGrants(documentId, user), user, {"Edit", "Manage"}).truthy
     \/ /\ DocumentIsDraft(documentId)
        /\ user.id = DocumentCreatedById(documentId)

\* allow(User, "update", Document)
CanUpdateDocument(user, documentId) ==
  /\ DocumentIsActive(documentId)
  /\ IsTeamMutable(user)
  /\ CanReadDocument(user, documentId)
  /\ \/ DocumentIncludesPermission(documentId,
          DocumentGrants(documentId, user), user, {"Edit", "Manage"}).truthy
     \/ CanUpdateDocumentCollection(user, DocumentCollection(documentId))
     \/ /\ DocumentIsDraft(documentId)
        /\ user.id = DocumentCreatedById(documentId)

\* allow(User, "manageUsers", Document)
CanManageUsersDocument(user, documentId) ==
  /\ CanUpdateDocument(user, documentId)
  /\ \/ DocumentIncludesPermission(documentId,
          DocumentGrants(documentId, user), user, {"Manage"}).truthy
     \/ CanDeleteDocumentCollection(user, DocumentCollection(documentId))
     \/ /\ DocumentIsDraft(documentId)
        /\ user.id = DocumentCreatedById(documentId)

\* the delete rule of documents with its creator branch open to every user
CanDeleteDocumentAnyUser(user, documentId) ==
  /\ ~DocumentIsDeleted(documentId)
  /\ IsTeamModel(user, DocumentTeamId(documentId))
  /\ IsTeamMutable(user)
  /\ \/ CanDeleteDocumentCollection(user, DocumentCollection(documentId))
     \/ DocumentIncludesPermission(documentId,
          DocumentGrants(documentId, user), user, {"Manage"}).truthy
     \/ DocumentCollection(documentId) = NULL

\* allow(User, "delete", Document)
CanDeleteDocument(user, documentId) ==
  /\ ~DocumentIsDeleted(documentId)
  /\ IsTeamModel(user, DocumentTeamId(documentId))
  /\ IsTeamMutable(user)
  /\ \/ CanDeleteDocumentCollection(user, DocumentCollection(documentId))
     \/ DocumentIncludesPermission(documentId,
          DocumentGrants(documentId, user), user, {"Manage"}).truthy
     \/ /\ DocumentCollection(documentId) = NULL
        /\ user.id = DocumentCreatedById(documentId)

\* actor.isViewer
IsViewer(user) == user.role = "viewer"

\* collection.sharing of a possibly null collection
CollectionSharing(collectionId) ==
  collectionId # NULL /\ collections[collectionId].sharing

\* allow(User, "move", Collection)
CanMoveCollection(user, collectionId) ==
  /\ CollectionIsActive(collectionId)
  /\ IsTeamModel(user, CollectionTeamId(collectionId))
  /\ IsTeamMutable(user)
  /\ CollectionIncludesPermission(collectionId,
       CollectionGrants(collectionId, user), user, {"Manage"}).truthy

\* allow(User, "share", Collection)
CanShareCollection(user, collectionId) ==
  IF \/ collectionId = NULL
     \/ IsViewer(user)
     \/ user.teamId # collections[collectionId].teamId
     \/ ~IsTeamMutable(user)
  THEN FALSE
  ELSE IF ~CollectionSharing(collectionId) THEN FALSE
  ELSE CollectionIncludesPermission(collectionId,
         CollectionGrants(collectionId, user), user, {"Manage"}).truthy

\* allow(User, "createDocument", Collection)
CanCreateDocumentCollection(user, collectionId) ==
  IF \/ collectionId = NULL
     \/ ~CollectionIsActive(collectionId)
     \/ ~IsTeamModel(user, CollectionTeamId(collectionId))
     \/ ~IsTeamMutable(user)
  THEN FALSE
  ELSE CollectionIncludesPermission(collectionId,
         CollectionGrants(collectionId, user), user,
         {"Edit", "Manage"}).truthy

\* allow(User, "delete", Collection)
CanDeleteCollection(user, collectionId) ==
  /\ collectionId # NULL
  /\ collections[collectionId].deletedAt = NULL
  /\ CollectionIncludesPermission(collectionId,
       CollectionGrants(collectionId, user), user, {"Manage"}).truthy

\* allow(User, "restore", Collection)
CanRestoreCollection(user, collectionId) ==
  /\ collectionId # NULL
  /\ ~CollectionIsActive(collectionId)
  /\ CollectionIncludesPermission(collectionId,
       CollectionGrants(collectionId, user), user, {"Manage"}).truthy

\* the share rule of documents without its check of the actor's role
CanShareDocumentAnyRole(user, documentId) ==
  /\ DocumentIsActive(documentId)
  /\ IsTeamMutable(user)
  /\ CanManageUsersDocument(user, documentId)
  /\ \/ DocumentCollection(documentId) = NULL
     \/ CollectionSharing(DocumentCollection(documentId))

\* allow(User, "share", Document)
CanShareDocument(user, documentId) ==
  /\ DocumentIsActive(documentId)
  /\ ~IsViewer(user)
  /\ IsTeamMutable(user)
  /\ CanManageUsersDocument(user, documentId)
  /\ \/ DocumentCollection(documentId) = NULL
     \/ CollectionSharing(DocumentCollection(documentId))

\* allow(User, "publish", Document)
CanPublishDocument(user, documentId) ==
  /\ DocumentIsDraft(documentId)
  /\ CanUpdateDocument(user, documentId)

\* allow(User, "duplicate", Document)
CanDuplicateDocument(user, documentId) ==
  /\ CanUpdateDocument(user, documentId)
  /\ \/ DocumentIncludesPermission(documentId,
          DocumentGrants(documentId, user), user, {"Manage"}).truthy
     \/ CanDeleteDocumentCollection(user, DocumentCollection(documentId))
     \/ /\ DocumentIsDraft(documentId)
        /\ user.id = DocumentCreatedById(documentId)

\* allow(User, "move", Document)
CanMoveDocument(user, documentId) ==
  /\ CanUpdateDocument(user, documentId)
  /\ \/ DocumentIncludesPermission(documentId,
          DocumentGrants(documentId, user), user, {"Edit", "Manage"}).truthy
     \/ CanUpdateDocumentCollection(user, DocumentCollection(documentId))
     \/ /\ DocumentIsDraft(documentId)
        /\ user.id = DocumentCreatedById(documentId)
     \/ /\ DocumentIsDraft(documentId)
        /\ DocumentCollection(documentId) = NULL

\* allow(User, "createChildDocument", Document)
CanCreateChildDocument(user, documentId) ==
  /\ ~DocumentIsDraft(documentId)
  /\ CanUpdateDocument(user, documentId)

\* allow(User, "restore", Document)
CanRestoreDocument(user, documentId) ==
  /\ ~IsViewer(user)
  /\ DocumentIsDeleted(documentId)
  /\ IsTeamModel(user, DocumentTeamId(documentId))
  /\ \/ DocumentIncludesPermission(documentId,
          DocumentGrants(documentId, user), user, {"Edit", "Manage"}).truthy
     \/ CanUpdateDocumentCollection(user, DocumentCollection(documentId))
     \/ /\ DocumentIsDraft(documentId)
        /\ user.id = DocumentCreatedById(documentId)

\* allow(User, "archive", Document)
CanArchiveDocument(user, documentId) ==
  /\ ~DocumentIsDraft(documentId)
  /\ DocumentIsActive(documentId)
  /\ CanUpdateDocument(user, documentId)
  /\ \/ DocumentIncludesPermission(documentId,
          DocumentGrants(documentId, user), user, {"Manage"}).truthy
     \/ CanDeleteDocumentCollection(user, DocumentCollection(documentId))

\* allow(User, "unarchive", Document)
CanUnarchiveDocument(user, documentId) ==
  /\ ~DocumentIsDraft(documentId)
  /\ ~DocumentIsDeleted(documentId)
  /\ documentId # NULL /\ documents[documentId].archivedAt # NULL
  /\ CanReadDocument(user, documentId)
  /\ \/ DocumentIncludesPermission(documentId,
          DocumentGrants(documentId, user), user, {"Edit", "Manage"}).truthy
     \/ CanUpdateDocumentCollection(user, DocumentCollection(documentId))
     \/ /\ DocumentIsDraft(documentId)
        /\ user.id = DocumentCreatedById(documentId)

\* can(actor, action, resource) for the actions the model uses
PolicyActions ==
  {<<"read", "collection">>, <<"readDocument", "collection">>,
   <<"updateDocument", "collection">>, <<"deleteDocument", "collection">>,
   <<"update", "collection">>, <<"read", "document">>,
   <<"update", "document">>, <<"manageUsers", "document">>,
   <<"delete", "document">>}

Can(user, action, resourceType, resourceId) ==
  CASE <<action, resourceType>> = <<"read", "collection">> ->
         CanReadCollection(user, resourceId)
    [] <<action, resourceType>> = <<"readDocument", "collection">> ->
         CanReadDocumentCollection(user, resourceId)
    [] <<action, resourceType>> = <<"updateDocument", "collection">> ->
         CanUpdateDocumentCollection(user, resourceId)
    [] <<action, resourceType>> = <<"deleteDocument", "collection">> ->
         CanDeleteDocumentCollection(user, resourceId)
    [] <<action, resourceType>> = <<"update", "collection">> ->
         CanUpdateCollection(user, resourceId)
    [] <<action, resourceType>> = <<"read", "document">> ->
         CanReadDocument(user, resourceId)
    [] <<action, resourceType>> = <<"update", "document">> ->
         CanUpdateDocument(user, resourceId)
    [] <<action, resourceType>> = <<"manageUsers", "document">> ->
         CanManageUsersDocument(user, resourceId)
    [] <<action, resourceType>> = <<"delete", "document">> ->
         CanDeleteDocument(user, resourceId)
    [] <<action, resourceType>> \in {<<"export", "collection">>,
                                     <<"archive", "collection">>} ->
         CanUpdateCollection(user, resourceId)
    [] <<action, resourceType>> = <<"move", "collection">> ->
         CanMoveCollection(user, resourceId)
    [] <<action, resourceType>> = <<"share", "collection">> ->
         CanShareCollection(user, resourceId)
    [] <<action, resourceType>> = <<"createDocument", "collection">> ->
         CanCreateDocumentCollection(user, resourceId)
    [] <<action, resourceType>> = <<"delete", "collection">> ->
         CanDeleteCollection(user, resourceId)
    [] <<action, resourceType>> = <<"restore", "collection">> ->
         CanRestoreCollection(user, resourceId)
    [] <<action, resourceType>> = <<"share", "document">> ->
         CanShareDocument(user, resourceId)
    [] <<action, resourceType>> = <<"publish", "document">> ->
         CanPublishDocument(user, resourceId)
    [] <<action, resourceType>> = <<"duplicate", "document">> ->
         CanDuplicateDocument(user, resourceId)
    [] <<action, resourceType>> = <<"move", "document">> ->
         CanMoveDocument(user, resourceId)
    [] <<action, resourceType>> = <<"createChildDocument", "document">> ->
         CanCreateChildDocument(user, resourceId)
    [] <<action, resourceType>> = <<"restore", "document">> ->
         CanRestoreDocument(user, resourceId)
    [] <<action, resourceType>> = <<"archive", "document">> ->
         CanArchiveDocument(user, resourceId)
    [] <<action, resourceType>> = <<"unarchive", "document">> ->
         CanUnarchiveDocument(user, resourceId)
    [] OTHER -> FALSE

\* the actions of the rule table on a collection and on a document
CollectionActions ==
  {"read", "readDocument", "update", "export", "archive", "delete",
   "restore", "move", "share", "updateDocument", "createDocument",
   "deleteDocument"}

DocumentActions ==
  {"read", "update", "publish", "manageUsers", "share", "duplicate", "move",
   "createChildDocument", "archive", "unarchive", "delete", "restore"}

\* serialize(actor, resource): the actions of the rule table that can allows
Serialize(userId, resourceType, resourceId) ==
  /\ CallIdle
  /\ call' = [NoCall EXCEPT
                !.op = "serialize", !.pc = "done",
                !.resourceType = resourceType, !.resourceId = resourceId,
                !.userId = userId, !.userRole = users[userId].role,
                !.abilities =
                  {action \in IF resourceType = "collection"
                              THEN CollectionActions ELSE DocumentActions :
                     Can(Actor(userId), action, resourceType, resourceId)}]
  /\ UNCHANGED <<permissions, documents, users, groupUsers, collections, teams, requests, nextId, snapshots>>

\* one evaluation of includesPermission on a resource that was loaded for
\* the user scopeUserId
IncludesPermissionCall(resourceType, resourceId, userId, scopeUserId, levels) ==
  /\ CallIdle
  /\ LET user == Actor(userId)
         grants == IF resourceId = NULL THEN <<>>
                   ELSE WithPermissionGrants(permissions, resourceType,
                                             resourceId, scopeUserId)
     IN call' = [NoCall EXCEPT
                   !.op = "includesPermission", !.pc = "done",
                   !.resourceType = resourceType,
                   !.resourceId = resourceId,
                   !.userId = userId, !.userRole = user.role,
                   !.grants = grants, !.allowedLevels = levels,
                   !.result =
                     IF resourceType = "collection"
                     THEN CollectionIncludesPermission(resourceId, grants,
                            user, levels)
                     ELSE DocumentIncludesPermission(resourceId, grants,
                            user, levels)]
  /\ UNCHANGED <<permissions, documents, users, groupUsers, collections, teams, requests, nextId, snapshots>>

\* one evaluation of can(actor, action, resource)
CanCall(userId, action, resourceType, resourceId) ==
  /\ CallIdle
  /\ call' = [NoCall EXCEPT
                !.op = "can", !.pc = "done", !.action = action,
                !.resourceType = resourceType, !.resourceId = resourceId,
                !.userId = userId, !.userRole = users[userId].role,
                !.allowed = Can(Actor(userId), action, resourceType,
                                resourceId)]
  /\ UNCHANGED <<permissions, documents, users, groupUsers, collections, teams, requests, nextId, snapshots>>

\* ------------------------------------------------------------ requests
\* request processes: each runs one handler at a time, inside the single
\* transaction the transaction() middleware opens for it
Procs == {"p1", "p2"}

\* ids the model lets the table generate
MaxCreated == 3

\* the where object the sharing handlers pass to destroy / findOne
Where(teamId, subject, resourceType, resourceId) ==
  [teamId |-> teamId, subjectType |-> subject[1], subjectId |-> subject[2],
   subjectRole |-> subject[3], resourceType |-> resourceType,
   resourceId |-> resourceId]

NoRequest ==
  [op |-> "none", pc |-> "idle",
   where |-> Where(NULL, <<NULL, NULL, NULL>>, NULL, NULL),
   permission |-> NULL, targets |-> {}, destroyed |-> {}, locked |-> {},
   created |-> <<>>, grant |-> 0, actor |-> NULL, saved |-> NULL]

\* a row satisfies the where object (paranoid models add deletedAt IS NULL)
MatchesWhere(r, where) ==
  /\ r.teamId = where.teamId
  /\ r.subjectType = where.subjectType
  /\ where.subjectType \in {"user", "group"} => r.subjectId = where.subjectId
  /\ where.subjectType = "role" => r.subjectRole = where.subjectRole
  /\ r.resourceType = where.resourceType
  /\ r.resourceId = where.resourceId

\* the key of the partial unique index permissions_unique_active_idx with an
\* extra column "permission"
UniqueActiveKeyWithLevel(r) ==
  <<r.teamId, r.subjectType, r.subjectId, r.subjectRole, r.resourceType,
    r.resourceId, r.inheritMode, r.permission>>

\* the key of the partial unique index permissions_unique_active_idx
\* (WHERE "deletedAt" IS NULL)
UniqueActiveKey(r) ==
  <<r.teamId, r.subjectType, r.subjectId, r.subjectRole, r.resourceType,
    r.resourceId, r.inheritMode>>

\* no row lock is waited for
LockedByNobody(p) == {}

\* rows whose soft-delete or FOR UPDATE lock another open transaction holds
LockedByOther(p) ==
  UNION {requests[q].destroyed \cup requests[q].locked : q \in Procs \ {p}}

\* rows a statement of p's transaction sees as active (READ COMMITTED): the
\* committed active rows it has not soft-deleted itself, and its own inserts
ActiveFor(p) ==
  {r \in Rows(permissions) :
     r.deletedAt = NULL /\ r.id \notin requests[p].destroyed}
  \cup {r \in Rows(requests[p].created) : r.deletedAt = NULL}

\* collectionPermissionToLevel / documentPermissionToLevel
PermissionToLevel(permission) ==
  IF permission = "Manage" THEN "manage"
  ELSE IF permission = "Edit" THEN "edit"
  ELSE "read"

RequestIdle(p) == requests[p].pc = "idle"

\* authorize(actor, "read", user) and authorize(actor, "read", group): a
\* user and a group of the actor's team can be read
CanReadUser(user, userId) == user.teamId = users[userId].teamId

CanReadGroup(user, groupId) == groupId \in Groups

\* a sharing handler entered without any authorize call
RequestBeginUnchecked(p, actorId, authorized, op, pc, where, permission) ==
  /\ RequestIdle(p)
  /\ requests' = [requests EXCEPT ![p] =
       [NoRequest EXCEPT !.op = op, !.pc = pc, !.actor = actorId,
                         !.where = where, !.permission = permission]]
  /\ UNCHANGED <<permissions, documents, users, groupUsers, collections, teams, call, nextId, snapshots>>

\* a sharing handler entered: its resource is loaded for the actor and its
\* authorize calls are made; when they pass, the where object of the first
\* statement is built, otherwise authorize throws AuthorizationError
RequestBegin(p, actorId, authorized, op, pc, where, permission) ==
  /\ RequestIdle(p)
  /\ requests' = [requests EXCEPT ![p] =
       [NoRequest EXCEPT !.op = op, !.actor = actorId, !.where = where,
                         !.permission = permission,
                         !.pc = IF authorized THEN pc ELSE "forbidden"]]
  /\ UNCHANGED <<permissions, documents, users, groupUsers, collections, teams, call, nextId, snapshots>>

\* the AuthorizationError leaves the handler: the transaction middleware
\* rolls back and the request is answered 403
Forbidden(p) ==
  /\ requests[p].pc = "forbidden"
  /\ requests' = [requests EXCEPT ![p] = NoRequest]
  /\ UNCHANGED <<permissions, documents, users, groupUsers, collections, teams, call, nextId, snapshots>>

CollectionsAddUser(p, actorId, id, userId, permission) ==
  RequestBegin(p, actorId,
    /\ CanUpdateCollection(Actor(actorId), id)
    /\ CanReadUser(Actor(actorId), userId),
    "collections.add_user", "destroy",
    Where(users[actorId].teamId, <<"user", userId, NULL>>, "collection", id),
    permission)

CollectionsAddGroup(p, actorId, id, groupId, permission) ==
  RequestBegin(p, actorId,
    /\ CanUpdateCollection(Actor(actorId), id)
    /\ CanReadGroup(Actor(actorId), groupId),
    "collections.add_group", "destroy",
    Where(users[actorId].teamId, <<"group", groupId, NULL>>, "collection", id),
    permission)

\* documents.add_user refuses the actor as the user before anything else
DocumentsAddUser(p, actorId, id, userId, permission) ==
  /\ userId # actorId
  /\ RequestBegin(p, actorId,
       /\ CanManageUsersDocument(Actor(actorId), id)
       /\ CanReadUser(Actor(actorId), userId),
       "documents.add_user", "destroy",
       Where(users[actorId].teamId, <<"user", userId, NULL>>, "document", id),
       permission)

DocumentsAddGroup(p, actorId, id, groupId, permission) ==
  RequestBegin(p, actorId,
    /\ CanManageUsersDocument(Actor(actorId), id)
    /\ CanReadGroup(Actor(actorId), groupId),
    "documents.add_group", "destroy",
    Where(users[actorId].teamId, <<"group", groupId, NULL>>, "document", id),
    permission)

CollectionsRemoveUser(p, actorId, id, userId) ==
  RequestBegin(p, actorId,
    /\ CanUpdateCollection(Actor(actorId), id)
    /\ CanReadUser(Actor(actorId), userId),
    "collections.remove_user", "findOne",
    Where(users[actorId].teamId, <<"user", userId, NULL>>, "collection", id),
    NULL)

CollectionsRemoveGroup(p, actorId, id, groupId) ==
  RequestBegin(p, actorId,
    /\ CanUpdateCollection(Actor(actorId), id)
    /\ CanReadGroup(Actor(actorId), groupId),
    "collections.remove_group", "findOne",
    Where(users[actorId].teamId, <<"group", groupId, NULL>>, "collection", id),
    NULL)

\* documents.remove_user authorizes only when the actor removes somebody else
DocumentsRemoveUser(p, actorId, id, userId) ==
  RequestBegin(p, actorId,
    actorId # userId =>
      /\ CanManageUsersDocument(Actor(actorId), id)
      /\ CanReadUser(Actor(actorId), userId),
    "documents.remove_user", "findOneForUpdate",
    Where(users[actorId].teamId, <<"user", userId, NULL>>, "document", id),
    NULL)

DocumentsRemoveGroup(p, actorId, id, groupId) ==
  RequestBegin(p, actorId,
    /\ CanManageUsersDocument(Actor(actorId), id)
    /\ CanReadGroup(Actor(actorId), groupId),
    "documents.remove_group", "findOneForUpdate",
    Where(users[actorId].teamId, <<"group", groupId, NULL>>, "document", id),
    NULL)

\* collections.update with a permission in the body: the viewer role grants
\* are destroyed first
CollectionsUpdate(p, actorId, id, permission) ==
  RequestBegin(p, actorId, CanUpdateCollection(Actor(actorId), id),
    "collections.update", "destroy",
    Where(users[actorId].teamId, <<"role", NULL, "viewer">>, "collection", id),
    permission)

\* Permission.destroy({ where, force: false, transaction }) issued: the
\* UPDATE picks the active rows its snapshot shows
PermissionDestroyBegin(p) ==
  /\ requests[p].pc = "destroy"
  /\ requests' = [requests EXCEPT
       ![p].pc = "destroying",
       ![p].targets =
         {r.id : r \in {x \in ActiveFor(p) : MatchesWhere(x, requests[p].where)}}]
  /\ UNCHANGED <<permissions, documents, users, groupUsers, collections, teams, call, nextId, snapshots>>

\* what the handler does after a destroy statement
AfterDestroy(req) ==
  IF req.op \in {"collections.add_user", "collections.add_group",
                 "documents.add_user", "documents.add_group"}
  THEN [req EXCEPT !.pc = "create", !.targets = {}]
  ELSE IF req.op = "collections.update"
  THEN IF req.where.subjectRole = "viewer"
       THEN [req EXCEPT !.pc = "destroy", !.targets = {},
                        !.where.subjectRole = "editor"]
       ELSE [req EXCEPT !.pc = "bulkCreate", !.targets = {}]
  ELSE [req EXCEPT !.pc = "commit", !.targets = {}]

\* the UPDATE completes: it waits for the row locks other transactions hold
\* on its rows, then sets deletedAt on those that are still active
PermissionDestroyEnd(p) ==
  /\ requests[p].pc = "destroying"
  /\ requests[p].targets \cap LockedByOther(p) = {}
  /\ LET req == requests[p]
         stillActive == {r.id : r \in {x \in Rows(permissions) :
                           x.id \in req.targets /\ x.deletedAt = NULL}}
         own == [i \in 1..Len(req.created) |->
                   IF req.created[i].id \in req.targets
                   THEN [req.created[i] EXCEPT !.deletedAt = "deleted"]
                   ELSE req.created[i]]
     IN requests' = [requests EXCEPT ![p] =
          AfterDestroy([req EXCEPT
            !.destroyed = @ \cup stillActive, !.created = own])]
  /\ UNCHANGED <<permissions, documents, users, groupUsers, collections, teams, call, nextId, snapshots>>

\* active rows with the key of `row` that the unique index still has to see
\* decided: inserted or soft-deleted by another open transaction
PendingConflicts(p, row) ==
  {r \in Rows(permissions) :
     /\ r.deletedAt = NULL
     /\ UniqueActiveKey(r) = UniqueActiveKey(row)
     /\ \E q \in Procs \ {p} : r.id \in requests[q].destroyed}
  \cup UNION {{r \in Rows(requests[q].created) :
                 r.deletedAt = NULL /\ UniqueActiveKey(r) = UniqueActiveKey(row)} :
              q \in Procs \ {p}}

\* active rows with the key of `row` that make the insert fail
Conflicts(p, row) ==
  {r \in ActiveFor(p) :
     /\ UniqueActiveKey(r) = UniqueActiveKey(row)
     /\ \A q \in Procs \ {p} : r.id \notin requests[q].destroyed}

\* the row Permission.create builds in the add handlers: collection grants
\* are Children grants, document grants are Self grants
NewGrant(req, id) ==
  Permission(id, req.where.teamId,
    <<req.where.subjectType, req.where.subjectId, req.where.subjectRole>>,
    <<req.where.resourceType, req.where.resourceId>>,
    PermissionToLevel(req.permission),
    IF req.where.resourceType = "collection" THEN "children" ELSE "self",
    id, NULL)

\* Permission.create(..., ctx.context): the INSERT of the add handlers
PermissionCreate(p) ==
  /\ requests[p].pc = "create"
  /\ nextId <= MaxCreated
  /\ LET row == NewGrant(requests[p], nextId)
     IN /\ PendingConflicts(p, row) = {}
        /\ IF Conflicts(p, row) = {}
           THEN /\ requests' = [requests EXCEPT
                     ![p].pc = "commit", ![p].created = Append(@, row)]
                /\ nextId' = nextId + 1
           ELSE \* unique violation: the handler throws, the transaction
                \* is rolled back
                /\ requests' = [requests EXCEPT ![p] = NoRequest]
                /\ UNCHANGED nextId
  /\ UNCHANGED <<permissions, documents, users, groupUsers, collections, teams, call, snapshots>>

\* the role grants collections.update creates for a permission value
RoleGrants(permission) ==
  IF permission = "Read"
  THEN << <<"viewer", "read">>, <<"editor", "read">> >>
  ELSE IF permission = "Edit"
  THEN << <<"viewer", "read">>, <<"editor", "edit">> >>
  ELSE <<>>

\* the rows of Permission.bulkCreate in collections.update: one statement,
\* one creation time
NewRoleGrants(req, id) ==
  [i \in 1..Len(RoleGrants(req.permission)) |->
     Permission(id + i - 1, req.where.teamId,
       <<"role", NULL, RoleGrants(req.permission)[i][1]>>,
       <<"collection", req.where.resourceId>>,
       RoleGrants(req.permission)[i][2], "children", id, NULL)]

\* if (roleGrants.length) await Permission.bulkCreate(...)
PermissionBulkCreate(p) ==
  /\ requests[p].pc = "bulkCreate"
  /\ LET rows == NewRoleGrants(requests[p], nextId)
     IN /\ nextId + Len(rows) - 1 <= MaxCreated
        /\ \A i \in 1..Len(rows) : PendingConflicts(p, rows[i]) = {}
        /\ IF \A i \in 1..Len(rows) : Conflicts(p, rows[i]) = {}
           THEN /\ requests' = [requests EXCEPT
                     ![p].pc = "save", ![p].created = @ \o rows]
                /\ nextId' = nextId + Len(rows)
           ELSE /\ requests' = [requests EXCEPT ![p] = NoRequest]
                /\ UNCHANGED nextId
  /\ UNCHANGED <<permissions, documents, users, groupUsers, collections, teams, call, snapshots>>

\* await collection.saveWithCtx(ctx) of collections.update: when a field of
\* the collection changed, an UPDATE of its row, which waits for the row lock
\* of another open transaction and holds it until the commit
CollectionSaveWithCtx(p) ==
  /\ requests[p].pc = "save"
  /\ \E changed \in BOOLEAN :
       /\ changed =>
            \A q \in Procs \ {p} :
              requests[q].saved # requests[p].where.resourceId
       /\ requests' = [requests EXCEPT
            ![p].pc = "commit",
            ![p].saved = IF changed THEN requests[p].where.resourceId
                         ELSE NULL]
  /\ UNCHANGED <<permissions, documents, users, groupUsers, collections, teams, call, nextId, snapshots>>

\* Permission.findOne({ where, transaction }) of collections.remove_user /
\* remove_group; no row: ctx.throw(InvalidRequestError), rolled back
PermissionFindOne(p) ==
  /\ requests[p].pc = "findOne"
  /\ IF \E r \in ActiveFor(p) : MatchesWhere(r, requests[p].where)
     THEN requests' = [requests EXCEPT ![p].pc = "destroy"]
     ELSE requests' = [requests EXCEPT ![p] = NoRequest]
  /\ UNCHANGED <<permissions, documents, users, groupUsers, collections, teams, call, nextId, snapshots>>

\* Permission.findOne({ where, transaction, lock: LOCK.UPDATE,
\* rejectOnEmpty: true }) of documents.remove_user / remove_group: waits for
\* the row lock, then returns the row if it is still active
PermissionFindOneForUpdate(p) ==
  /\ requests[p].pc = "findOneForUpdate"
  /\ LET candidates == {r \in ActiveFor(p) : MatchesWhere(r, requests[p].where)}
     IN /\ {r.id : r \in candidates} \cap LockedByOther(p) = {}
        /\ IF candidates = {}
           THEN requests' = [requests EXCEPT ![p] = NoRequest]
           ELSE \E r \in candidates :
                  requests' = [requests EXCEPT
                    ![p].pc = "grantDestroy", ![p].grant = r.id,
                    ![p].locked = @ \cup {r.id}]
  /\ UNCHANGED <<permissions, documents, users, groupUsers, collections, teams, call, nextId, snapshots>>

\* await grant.destroy(ctx.context): the locked row is soft-deleted
GrantDestroy(p) ==
  /\ requests[p].pc = "grantDestroy"
  /\ requests' = [requests EXCEPT
       ![p].pc = "destroy", ![p].destroyed = @ \cup {requests[p].grant}]
  /\ UNCHANGED <<permissions, documents, users, groupUsers, collections, teams, call, nextId, snapshots>>

\* a commit of a destroy that deletes the rows instead of marking them
CommitHardDelete(p) ==
  /\ requests[p].pc = "commit"
  /\ permissions' =
       LET Kept(r) == r.id \notin requests[p].destroyed
       IN SelectSeq(permissions, Kept) \o requests[p].created
  /\ requests' = [requests EXCEPT ![p] = NoRequest]
  /\ UNCHANGED <<documents, users, groupUsers, collections, teams, call, nextId, snapshots>>

\* the handler returned: the transaction middleware commits
Commit(p) ==
  /\ requests[p].pc = "commit"
  /\ permissions' =
       [i \in 1..Len(permissions) |->
          IF permissions[i].id \in requests[p].destroyed
          THEN [permissions[i] EXCEPT !.deletedAt = "deleted"]
          ELSE permissions[i]] \o requests[p].created
  /\ requests' = [requests EXCEPT ![p] = NoRequest]
  /\ UNCHANGED <<documents, users, groupUsers, collections, teams, call, nextId>>
  /\ snapshots' = SnapshotsAfter(documents, permissions')

\* ------------------------------------------------------------ hierarchy
\* documents.move: the handler hands the new parent to documentMover, which
\* stores it; with a parent the collection is the parent's, without one the
\* collectionId of the request. No check relates the new parent to the
\* descendants of the document. The ancestry query is one statement: a move
\* commits before or after it.
MoveDocument(id, parentDocumentId, collectionId) ==
  /\ call.pc # "ancestry"
  /\ parentDocumentId # id
  /\ parentDocumentId = NULL => collectionId # NULL
  /\ documents[id].parentDocumentId # parentDocumentId
  /\ documents' = [documents EXCEPT
                     ![id].parentDocumentId = parentDocumentId,
                     ![id].collectionId =
                       IF parentDocumentId # NULL
                       THEN documents[parentDocumentId].collectionId
                       ELSE collectionId]
  /\ UNCHANGED <<permissions, users, groupUsers, collections, teams, call, requests, nextId>>
  /\ snapshots' = SnapshotsAfter(documents', permissions)

\* ---------------------------------------------------------------- audit
\* the strings the audit view sorts, in the order of localeCompare; the
\* empty string stands in for null (a.resourceId ?? "")
SortedStrings ==
  <<NULL, "admin", "c1", "c2", "collection", "d1", "d2", "d3", "document",
    "edit", "editor", "g1", "group", "manage", "read", "role", "u1", "u2",
    "user", "viewer", "workspace">>

StringRank(string) ==
  CHOOSE i \in 1..Len(SortedStrings) : SortedStrings[i] = string

\* the fields filteredEntries.sort compares, in its order
AuditSortKey(entry) ==
  <<StringRank(entry.resourceType), StringRank(entry.resourceId),
    StringRank(entry.subjectType), StringRank(entry.subjectId),
    StringRank(entry.subjectRole), StringRank(entry.permission), entry.id>>

\* the comparator of filteredEntries.sort: the first field that differs
\* decides
RECURSIVE AuditKeyLeq(_, _, _)
AuditKeyLeq(a, b, i) ==
  IF i > Len(a) THEN TRUE
  ELSE IF a[i] # b[i] THEN a[i] < b[i]
  ELSE AuditKeyLeq(a, b, i + 1)

RECURSIVE AuditSort(_)
AuditSort(entries) ==
  IF entries = {} THEN <<>>
  ELSE LET first == CHOOSE e \in entries :
                      \A o \in entries :
                        AuditKeyLeq(AuditSortKey(e), AuditSortKey(o), 1)
       IN <<first>> \o AuditSort(entries \ {first})

\* an AuditEntry: a grant listed under a resource
AuditEntry(permission, resourceType, resourceId, source) ==
  [id |-> permission.id, teamId |-> permission.teamId,
   subjectType |-> permission.subjectType,
   subjectId |-> permission.subjectId,
   subjectRole |-> permission.subjectRole,
   resourceType |-> resourceType, resourceId |-> resourceId,
   permission |-> permission.permission,
   inheritMode |-> permission.inheritMode,
   source |-> source,
   sourceResourceType |-> permission.resourceType,
   sourceResourceId |-> permission.resourceId]

\* findAncestorDocumentIds on a hierarchy without a cycle: the document and
\* its ancestors
RECURSIVE FindAncestorDocumentIds(_, _)
FindAncestorDocumentIds(documentId, n) ==
  IF n = 0 \/ documents[documentId].parentDocumentId = NULL
  THEN <<documentId>>
  ELSE <<documentId>>
         \o FindAncestorDocumentIds(documents[documentId].parentDocumentId,
                                    n - 1)

\* the entries collections.permissions_all builds for the caller's team: the
\* Workspace grants, and what the resolver returns for every collection and
\* every document of the team that is not deleted
AuditEntries(teamId) ==
  {AuditEntry(p, "workspace", NULL, "direct") :
     p \in {q \in Rows(permissions) :
              /\ q.teamId = teamId /\ q.deletedAt = NULL
              /\ q.resourceType = "workspace" /\ q.resourceId = NULL}}
  \cup UNION {
     {AuditEntry(p, "collection", c, ResolveForCollectionSource(p, c)) :
        p \in {q \in Rows(permissions) :
                 ResolveForCollectionWhere(q, teamId, c)}} :
     c \in {x \in Collections :
              /\ collections[x].teamId = teamId
              /\ collections[x].deletedAt = NULL}}
  \cup UNION {
     {AuditEntry(p, "document", d, ResolveForDocumentSource(p, d)) :
        p \in {q \in Rows(permissions) :
                 ResolveForDocumentWhere(q, teamId, d,
                   documents[d].collectionId,
                   FindAncestorDocumentIds(d, MaxAncestry))}} :
     d \in {x \in Documents :
              /\ documents[x].teamId = teamId
              /\ documents[x].deletedAt = NULL}}

\* collections.permissions_all without a query, one page: auth({ role:
\* Admin }), the entries sorted, the slice [offset, offset + limit). The
\* caller asks for the pages one after the other.
CollectionsPermissionsAll(userId, limit) ==
  /\ users[userId].role = "admin"
  /\ \/ CallIdle /\ limit > 0
     \/ /\ call.op = "collections.permissions_all" /\ call.pc = "paging"
        /\ call.userId = userId /\ call.limit = limit
  /\ LET offset == IF CallIdle THEN 0 ELSE call.offset
         sortedEntries == AuditSort(AuditEntries(users[userId].teamId))
         total == Len(sortedEntries)
         last == IF offset + limit < total THEN offset + limit ELSE total
         paginatedEntries == SubSeq(sortedEntries, offset + 1, last)
         earlier == IF CallIdle THEN <<>> ELSE call.entries
     IN call' = [NoCall EXCEPT
                   !.op = "collections.permissions_all",
                   !.pc = IF last < total THEN "paging" ELSE "done",
                   !.userId = userId, !.teamId = users[userId].teamId,
                   !.limit = limit, !.offset = offset + limit,
                   !.entries = earlier \o paginatedEntries]
  /\ UNCHANGED <<permissions, documents, users, groupUsers, collections, teams, requests, nextId, snapshots>>

\* ------------------------------------------------ resolver specification
\* The resolver reads teamId, deletedAt, resourceType, resourceId and
\* inheritMode of a row; the grant stores it is run on vary exactly these.
ResourceCases ==
  << <<"workspace", NULL>>, <<"collection", "c1">>, <<"collection", "c2">>,
     <<"document", "d1">>, <<"document", "d2">>, <<"document", "d3">> >>
TeamCases == <<"t1", "t2">>
InheritModeCases == <<"self", "children">>
DeletedAtCases == <<NULL, "deleted">>
SubjectCases ==
  << <<"user", "u1", NULL>>, <<"role", NULL, "editor">>,
     <<"group", "g1", NULL>> >>
LevelCases == <<"read", "edit", "manage">>

ResolverCaseCount ==
  Len(ResourceCases) * Len(TeamCases) * Len(InheritModeCases)
    * Len(DeletedAtCases)

\* the row numbered `code`; subject and level, which the resolver only
\* copies, rotate with the code
ResolverCase(code, id) ==
  LET team == TeamCases[(code % 2) + 1]
      deletedAt == DeletedAtCases[((code \div 2) % 2) + 1]
      inheritMode == InheritModeCases[((code \div 4) % 2) + 1]
      resource == ResourceCases[(code \div 8) + 1]
      subject == SubjectCases[(code % 3) + 1]
      level == LevelCases[((code \div 3) % 3) + 1]
  IN Permission(id, team, subject, resource, level, inheritMode, id,
                deletedAt)

\* strictly increasing sequences of at most MaxPermissions codes: one per
\* table of distinct rows
CodeSequences(codes) ==
  UNION {{cs \in [1..n -> codes] : \A i, j \in 1..n : i < j => cs[i] < cs[j]} :
         n \in 0..MaxPermissions}

\* the table whose i-th row is the row numbered cs[i], with id i
ResolverTable(cs) == [i \in DOMAIN cs |-> ResolverCase(cs[i], i)]

ResolverTables ==
  {ResolverTable(cs) : cs \in CodeSequences(0..(ResolverCaseCount - 1))}

\* document trees over three documents, one per shape: flat, one child,
\* two siblings, a chain
Document(teamId, collectionId, parentDocumentId) ==
  [teamId |-> teamId, collectionId |-> collectionId,
   parentDocumentId |-> parentDocumentId, createdById |-> "u2",
   ownerId |-> NULL, publishedAt |-> "published", archivedAt |-> NULL,
   deletedAt |-> NULL]

\* the collections of team t1, owned by u2, active
Collection(teamId, ownerId) ==
  [teamId |-> teamId, ownerId |-> ownerId, archivedAt |-> NULL,
   deletedAt |-> NULL, sharing |-> TRUE]

InitCollections == [c \in Collections |-> Collection("t1", "u2")]

\* teams that are not suspended
InitTeams == [t \in Teams |-> [mutable |-> TRUE]]

DocumentTrees ==
  {[d1 |-> Document("t1", "c1", NULL), d2 |-> Document("t1", "c1", ps[1]),
    d3 |-> Document("t1", "c1", ps[2])] :
     ps \in {<<NULL, NULL>>, <<"d1", NULL>>, <<"d1", "d1">>, <<"d1", "d2">>}}

InitUsers ==
  [u \in Users |-> [teamId |-> "t1", role |-> "editor"]]

InitResolve ==
  /\ permissions \in ResolverTables
  /\ documents \in DocumentTrees
  /\ users = InitUsers
  /\ groupUsers = {}
  /\ call = NoCall
  /\ collections = InitCollections
  /\ teams = InitTeams
  /\ requests = [p \in Procs |-> NoRequest]
  /\ nextId = Len(permissions) + 1
  /\ snapshots = NoSnapshots

NextResolve ==
  \/ \E c \in Collections : ResolveForCollection("t1", c)
  \/ \E d \in Documents, c \in {NULL, "c1"} :
       ResolveForDocumentBegin("t1", d, c)
  \/ FindAncestorDocumentIdsStep
  \/ FindAncestorDocumentIdsReturn
  \/ ResolveForDocumentReturn

SpecResolve == InitResolve /\ [][NextResolve]_vars

\* ------------------------------------------------ hierarchy specification
\* Documents are moved while documents are resolved. The grants are the
\* active grants of team t1 on documents, in either inherit mode.
MoveCodes ==
  {c \in 0..(ResolverCaseCount - 1) :
     /\ ResolverCase(c, 1).teamId = "t1"
     /\ ResolverCase(c, 1).deletedAt = NULL
     /\ ResolverCase(c, 1).resourceType = "document"}

InitMove ==
  /\ permissions \in {ResolverTable(cs) : cs \in CodeSequences(MoveCodes)}
  /\ documents = [d \in Documents |-> Document("t1", "c1", NULL)]
  /\ users = InitUsers
  /\ groupUsers = {}
  /\ call = NoCall
  /\ collections = InitCollections
  /\ teams = InitTeams
  /\ requests = [p \in Procs |-> NoRequest]
  /\ nextId = Len(permissions) + 1
  /\ snapshots = NoSnapshots

NextMove ==
  \/ \E d \in Documents, parent \in Documents \cup {NULL} :
       MoveDocument(d, parent, "c1")
  \/ \E d \in Documents : ResolveForDocumentBegin("t1", d, "c1")
  \/ FindAncestorDocumentIdsStep
  \/ FindAncestorDocumentIdsReturn
  \/ ResolveForDocumentReturn

SpecMove == InitMove /\ [][NextMove]_vars

\* ---------------------------------------------- calculator specification
\* The calculator reads subject and level of the rows the resolver returns;
\* the grant stores it is run on vary these. Every subject and level comes in
\* two of three places of the hierarchy of document d1: its collection, the
\* document itself and its parent d2. All rows are active rows of team t1.
CalculatorSubjectCases ==
  << <<"user", "u1", NULL>>, <<"user", "u2", NULL>>, <<"group", "g1", NULL>>,
     <<"role", NULL, "editor">> >>
CalculatorResourceCases ==
  << <<"collection", "c1", "children">>, <<"document", "d1", "self">>,
     <<"document", "d2", "children">> >>

CalculatorCaseCount ==
  Len(CalculatorSubjectCases) * Len(LevelCases) * 2

CalculatorCase(code, id) ==
  LET subject == CalculatorSubjectCases[(code % 4) + 1]
      level == LevelCases[((code \div 4) % 3) + 1]
      resource == CalculatorResourceCases[((code + (code \div 12)) % 3) + 1]
  IN Permission(id, "t1", subject, <<resource[1], resource[2]>>, level,
                resource[3], id, NULL)

InitPermission ==
  /\ permissions \in
       {[i \in DOMAIN cs |-> CalculatorCase(cs[i], i)] :
          cs \in CodeSequences(0..(CalculatorCaseCount - 1))}
  /\ documents = [d1 |-> Document("t1", "c1", "d2"),
                  d2 |-> Document("t1", "c1", NULL),
                  d3 |-> Document("t1", "c1", NULL)]
  /\ \E r \in Roles :
       users = [InitUsers EXCEPT !["u1"].role = r]
  /\ groupUsers \in SUBSET {<<"g1", "u1">>}
  /\ call = NoCall
  /\ collections = InitCollections
  /\ teams = InitTeams
  /\ requests = [p \in Procs |-> NoRequest]
  /\ nextId = Len(permissions) + 1
  /\ snapshots = NoSnapshots

\* DocumentPermission
DocumentPermission == {"Read", "Edit", "Manage"}

NextPermission ==
  \/ \E skip \in 0..MaxPermissions :
       GetDocumentPermissionBegin("u1", "d1", skip)
  \/ \E permission \in DocumentPermission, skip \in 0..MaxPermissions :
       IsElevatedPermissionBegin("u1", "d1", permission, skip)
  \/ FindAncestorDocumentIdsStep
  \/ FindAncestorDocumentIdsReturn
  \/ GetDocumentPermissionReturn
  \/ IsElevatedPermissionReturn

SpecPermission == InitPermission /\ [][NextPermission]_vars

\* ------------------------------------------------- sharing specification
\* Two request processes share collection c1 of team t1 with user u1 and
\* take the share away again, starting from an empty table.
InitSharing ==
  /\ permissions = <<>>
  /\ documents = [d \in Documents |-> Document("t1", "c1", NULL)]
  /\ users = InitUsers
  /\ groupUsers = {<<"g1", "u1">>}
  /\ call = NoCall
  /\ collections = InitCollections
  /\ teams = InitTeams
  /\ requests = [p \in Procs |-> NoRequest]
  /\ nextId = 1
  /\ snapshots = NoSnapshots

Init == InitSharing

Next ==
  \E p \in Procs :
    \/ \E permission \in DocumentPermission :
         CollectionsAddUser(p, "u2", "c1", "u1", permission)
    \/ CollectionsRemoveUser(p, "u2", "c1", "u1")
    \/ PermissionFindOne(p)
    \/ PermissionDestroyBegin(p)
    \/ PermissionDestroyEnd(p)
    \/ PermissionCreate(p)
    \/ Commit(p)

Spec == Init /\ [][Next]_vars

\* ------------------------------------------------ document specification
\* Request p1 shares document d1 with user u1 and group g1 and takes the
\* shares away again while request p2 sets the permission of u1 on d1.
InitDocuments == InitSharing

NextDocuments ==
  \/ \E p \in Procs, permission \in DocumentPermission :
       DocumentsAddUser(p, "u2", "d1", "u1", permission)
  \/ DocumentsRemoveUser("p1", "u2", "d1", "u1")
  \/ DocumentsAddGroup("p1", "u2", "d1", "g1", "Read")
  \/ DocumentsRemoveGroup("p1", "u2", "d1", "g1")
  \/ \E p \in Procs :
       \/ PermissionFindOneForUpdate(p)
       \/ GrantDestroy(p)
       \/ PermissionDestroyBegin(p)
       \/ PermissionDestroyEnd(p)
       \/ PermissionCreate(p)
       \/ Commit(p)

SpecDocuments == InitDocuments /\ [][NextDocuments]_vars

\* ------------------------------------------------- revoke specification
\* One request process changes the group and role grants of collection c1
\* while permissions of u1 (member of g1, editor) are resolved.
InitRevoke == InitSharing

\* CollectionPermission values collections.update is called with
UpdatePermissions == {"Read", "Edit", NULL}

NextRevoke ==
  \/ \E permission \in {"Read", "Edit"} :
       CollectionsAddGroup("p1", "u2", "c1", "g1", permission)
  \/ CollectionsRemoveGroup("p1", "u2", "c1", "g1")
  \/ \E permission \in UpdatePermissions :
       CollectionsUpdate("p1", "u2", "c1", permission)
  \/ PermissionFindOne("p1")
  \/ PermissionDestroyBegin("p1")
  \/ PermissionDestroyEnd("p1")
  \/ PermissionCreate("p1")
  \/ PermissionBulkCreate("p1")
  \/ CollectionSaveWithCtx("p1")
  \/ Commit("p1")
  \/ ResolveForCollection("t1", "c1")
  \/ GetDocumentPermissionBegin("u1", "d1", NoMembershipId)
  \/ FindAncestorDocumentIdsReturn
  \/ GetDocumentPermissionReturn

SpecRevoke == InitRevoke /\ [][NextRevoke]_vars

\* ---------------------------------------------------- role specification
\* The role of user u1 is changed between evaluations while the grants stay
\* as they are. The grants are active grants of team t1 on document d1 and on
\* its collection c1, to the two roles and to u1.
RoleSubjectCases ==
  << <<"role", NULL, "editor">>, <<"role", NULL, "viewer">>,
     <<"user", "u1", NULL>> >>
RoleResourceCases ==
  << <<"document", "d1", "self">>, <<"collection", "c1", "children">> >>
RoleCaseCount ==
  Len(RoleSubjectCases) * Len(LevelCases) * Len(RoleResourceCases)

RoleCase(code, id) ==
  LET subject == RoleSubjectCases[(code % 3) + 1]
      level == LevelCases[((code \div 3) % 3) + 1]
      resource == RoleResourceCases[(code \div 9) + 1]
  IN Permission(id, "t1", subject, <<resource[1], resource[2]>>, level,
                resource[3], id, NULL)

\* the role of a user is set by an administrator; evaluations start after it
UserUpdateRole(userId, role) ==
  /\ CallIdle
  /\ users[userId].role # role
  /\ users' = [users EXCEPT ![userId].role = role]
  /\ call' = NoCall
  /\ UNCHANGED <<permissions, documents, groupUsers, collections, teams, requests, nextId, snapshots>>

InitRole ==
  /\ permissions \in
       {[i \in DOMAIN cs |-> RoleCase(cs[i], i)] :
          cs \in CodeSequences(0..(RoleCaseCount - 1))}
  /\ documents = [d1 |-> Document("t1", "c1", "d2"),
                  d2 |-> Document("t1", "c1", NULL),
                  d3 |-> Document("t1", "c1", NULL)]
  /\ users = InitUsers
  /\ groupUsers = {}
  /\ call = NoCall
  /\ collections = InitCollections
  /\ teams = InitTeams
  /\ requests = [p \in Procs |-> NoRequest]
  /\ nextId = Len(permissions) + 1
  /\ snapshots = NoSnapshots

NextRole ==
  \/ \E role \in Roles : UserUpdateRole("u1", role)
  \/ GetDocumentPermissionBegin("u1", "d1", NoMembershipId)
  \/ FindAncestorDocumentIdsStep
  \/ FindAncestorDocumentIdsReturn
  \/ GetDocumentPermissionReturn
  \/ \E resource \in {<<"document", "d1">>, <<"collection", "c1">>},
        levels \in {PermissionValues, {"Edit", "Manage"}} :
       IncludesPermissionCall(resource[1], resource[2], "u1", "u1", levels)

SpecRole == InitRole /\ [][NextRole]_vars

\* -------------------------------------------------- helper specification
\* includesPermission is applied to a collection, a document and the null
\* resource. Collection c1 is owned by u2, who is the member of group g1;
\* document d1 was created by u1 and names u1 as its owner. The grants are
\* active grants of team t1 made directly on c1 and on d1.
HelperSubjectCases ==
  << <<"user", "u1", NULL>>, <<"group", "g1", NULL>>,
     <<"role", NULL, "editor">>, <<"role", NULL, "viewer">> >>
HelperResourceCases == << <<"collection", "c1">>, <<"document", "d1">> >>
HelperCaseCount ==
  Len(HelperSubjectCases) * Len(LevelCases) * Len(HelperResourceCases)

HelperCase(code, id) ==
  LET subject == HelperSubjectCases[(code % 4) + 1]
      level == LevelCases[((code \div 4) % 3) + 1]
      resource == HelperResourceCases[(code \div 12) + 1]
  IN Permission(id, "t1", subject, resource, level, "self", id, NULL)

AllowedLevelCases == {PermissionValues, {"Edit", "Manage"}, {"Manage"}}

InitHelper ==
  /\ permissions \in
       {[i \in DOMAIN cs |-> HelperCase(cs[i], i)] :
          cs \in CodeSequences(0..(HelperCaseCount - 1))}
  /\ documents =
       [d1 |-> [Document("t1", "c1", NULL) EXCEPT
                  !.createdById = "u1", !.ownerId = "u1"],
        d2 |-> Document("t1", "c1", NULL),
        d3 |-> Document("t1", "c1", NULL)]
  /\ users = [InitUsers EXCEPT !["u2"].role = "viewer"]
  /\ groupUsers = {<<"g1", "u2">>}
  /\ call = NoCall
  /\ collections = InitCollections
  /\ teams = InitTeams
  /\ requests = [p \in Procs |-> NoRequest]
  /\ nextId = Len(permissions) + 1
  /\ snapshots = NoSnapshots

NextHelper ==
  \/ \E resource \in {<<"collection", "c1">>, <<"document", "d1">>},
        userId \in Users, scopeUserId \in Users,
        levels \in AllowedLevelCases :
       IncludesPermissionCall(resource[1], resource[2], userId, scopeUserId,
                              levels)
  \/ \E resourceType \in {"collection", "document"} :
       IncludesPermissionCall(resourceType, NULL, "u1", "u1",
                              PermissionValues)

SpecHelper == InitHelper /\ [][NextHelper]_vars

\* --------------------------------------------------- rules specification
\* The rules are evaluated for actor u1 of team t1 on document d1 and on
\* collection c1. d1 is a draft or published, created by u1 or by u2, active
\* or archived, in c1 or in no collection; c1 is owned by u1 or by u2. The
\* grants are active grants of team t1 made directly on c1 and on d1, to u1
\* and to the role of u1.
RuleSubjectCases == << <<"user", "u1", NULL>>, <<"role", NULL, "editor">> >>
RuleCaseCount ==
  Len(RuleSubjectCases) * Len(LevelCases) * Len(HelperResourceCases)

RuleCase(code, id) ==
  LET subject == RuleSubjectCases[(code % 2) + 1]
      level == LevelCases[((code \div 2) % 3) + 1]
      resource == HelperResourceCases[(code \div 6) + 1]
  IN Permission(id, "t1", subject, resource, level, "self", id, NULL)

InitRules ==
  /\ permissions \in
       {[i \in DOMAIN cs |-> RuleCase(cs[i], i)] :
          cs \in CodeSequences(0..(RuleCaseCount - 1))}
  /\ \E collectionId \in {NULL, "c1"}, createdById \in Users,
        publishedAt \in {NULL, "published"},
        archivedAt \in {NULL, "archived"} :
       documents =
         [d1 |-> [Document("t1", collectionId, NULL) EXCEPT
                    !.createdById = createdById,
                    !.publishedAt = publishedAt,
                    !.archivedAt = archivedAt],
          d2 |-> Document("t1", "c1", NULL),
          d3 |-> Document("t1", "c1", NULL)]
  /\ users = InitUsers
  /\ groupUsers = {}
  /\ call = NoCall
  /\ \E ownerId \in Users :
       collections = [InitCollections EXCEPT !["c1"].ownerId = ownerId]
  /\ teams = InitTeams
  /\ requests = [p \in Procs |-> NoRequest]
  /\ nextId = Len(permissions) + 1
  /\ snapshots = NoSnapshots

NextRules ==
  \E rule \in PolicyActions :
    CanCall("u1", rule[1], rule[2],
            IF rule[2] = "collection" THEN "c1" ELSE "d1")

SpecRules == InitRules /\ [][NextRules]_vars

\* ---------------------------------------------------- gate specification
\* One request at a time, made by u2, who owns c1, or by u1, who holds what
\* the grants give: every grant-mutating endpoint on collection c1 and on
\* document d1 of c1, starting from an empty table.
InitGate == InitSharing

NextGate ==
  \/ \E actorId \in Users, permission \in {"Read", "Manage"} :
       CollectionsAddUser("p1", actorId, "c1", "u1", permission)
  \/ \E actorId \in Users : CollectionsRemoveUser("p1", actorId, "c1", "u1")
  \/ \E actorId \in Users :
       CollectionsAddGroup("p1", actorId, "c1", "g1", "Read")
  \/ \E actorId \in Users : CollectionsRemoveGroup("p1", actorId, "c1", "g1")
  \/ \E actorId \in Users : CollectionsUpdate("p1", actorId, "c1", "Read")
  \/ \E actorId \in Users, userId \in Users :
       DocumentsAddUser("p1", actorId, "d1", userId, "Manage")
  \/ \E actorId \in Users, userId \in Users :
       DocumentsRemoveUser("p1", actorId, "d1", userId)
  \/ \E actorId \in Users :
       DocumentsAddGroup("p1", actorId, "d1", "g1", "Read")
  \/ \E actorId \in Users : DocumentsRemoveGroup("p1", actorId, "d1", "g1")
  \/ Forbidden("p1")
  \/ PermissionFindOne("p1")
  \/ PermissionFindOneForUpdate("p1")
  \/ GrantDestroy("p1")
  \/ PermissionDestroyBegin("p1")
  \/ PermissionDestroyEnd("p1")
  \/ PermissionCreate("p1")
  \/ PermissionBulkCreate("p1")
  \/ CollectionSaveWithCtx("p1")
  \/ Commit("p1")

SpecGate == InitGate /\ [][NextGate]_vars

\* ---------------------------------------------- collection specification
\* The rule table is evaluated for actor u1 on collection c1 of team t1.
\* u1 is an editor, a viewer or an admin, of team t1 or of team t2; within
\* t1, u1 may own c1 and may be in group g1. c1 is active, archived or
\* deleted, with sharing on or off; the teams can be changed or not. The
\* grants are active Children grants of team t1 on c1: to u1, to g1, to the
\* editors (as collections.update creates them) and to the admins (as the
\* backfill creates them).
CollectionSubjectCases ==
  << <<"user", "u1", NULL>>, <<"group", "g1", NULL>>,
     <<"role", NULL, "editor">>, <<"role", NULL, "admin">> >>
CollectionCaseCount == Len(CollectionSubjectCases) * Len(LevelCases)

CollectionCase(code, id) ==
  LET subject == CollectionSubjectCases[(code % 4) + 1]
      level == LevelCases[(code \div 4) + 1]
  IN Permission(id, "t1", subject, <<"collection", "c1">>, level,
                "children", id, NULL)

CollectionStateCases ==
  {<<NULL, NULL>>, <<"archived", NULL>>, <<NULL, "deleted">>}

InitCollection ==
  /\ permissions \in
       {[i \in DOMAIN cs |-> CollectionCase(cs[i], i)] :
          cs \in CodeSequences(0..(CollectionCaseCount - 1))}
  /\ documents = [d \in Documents |-> Document("t1", "c1", NULL)]
  /\ \E teamId \in Teams, role \in {"editor", "viewer", "admin"} :
       users = [InitUsers EXCEPT !["u1"] = [teamId |-> teamId, role |-> role]]
  /\ groupUsers \in
       IF users["u1"].teamId = "t1" THEN {{}, {<<"g1", "u1">>}} ELSE {{}}
  /\ call = NoCall
  /\ \E ownerId \in IF users["u1"].teamId = "t1" THEN Users ELSE {"u2"},
        state \in CollectionStateCases, sharing \in BOOLEAN :
       collections =
         [InitCollections EXCEPT
            !["c1"] = [Collection("t1", ownerId) EXCEPT
                         !.archivedAt = state[1], !.deletedAt = state[2],
                         !.sharing = sharing]]
  /\ \E mutable \in BOOLEAN : teams = [t \in Teams |-> [mutable |-> mutable]]
  /\ requests = [p \in Procs |-> NoRequest]
  /\ nextId = Len(permissions) + 1
  /\ snapshots = NoSnapshots

NextCollection == Serialize("u1", "collection", "c1")

SpecCollection == InitCollection /\ [][NextCollection]_vars

\* ------------------------------------------------ document specification
\* The rule table is evaluated for actor u1 on document d1 of team t1 and on
\* its collection c1. u1 is an editor or a viewer of one of actorTeams. d1
\* is a published document or a draft of c1, or a draft without a collection
\* (documents.publish and documents.move give every published document a
\* collection); it was created by u1 or by u2 and is active, archived or
\* deleted. c1 is owned by u1 or u2, with sharing on or off; the teams can be
\* changed or not. The grants are the rows of RuleCase on d1 and on c1.
DocumentPlaceCases ==
  {<<"c1", "published">>, <<"c1", NULL>>, <<NULL, NULL>>}

DocumentStateCases ==
  {<<NULL, NULL>>, <<"archived", NULL>>, <<NULL, "deleted">>}

DocumentRulesInit(actorTeams) ==
  /\ permissions \in
       {[i \in DOMAIN cs |-> RuleCase(cs[i], i)] :
          cs \in CodeSequences(0..(RuleCaseCount - 1))}
  /\ \E place \in DocumentPlaceCases, createdById \in Users,
        state \in DocumentStateCases :
       documents =
         [d1 |-> [Document("t1", place[1], NULL) EXCEPT
                    !.createdById = createdById,
                    !.publishedAt = place[2],
                    !.archivedAt = state[1],
                    !.deletedAt = state[2]],
          d2 |-> Document("t1", "c1", NULL),
          d3 |-> Document("t1", "c1", NULL)]
  /\ \E teamId \in actorTeams, role \in {"editor", "viewer"} :
       users = [InitUsers EXCEPT !["u1"] = [teamId |-> teamId, role |-> role]]
  /\ groupUsers = {}
  /\ call = NoCall
  /\ \E ownerId \in IF users["u1"].teamId = "t1" THEN Users ELSE {"u2"},
        sharing \in BOOLEAN :
       collections =
         [InitCollections EXCEPT
            !["c1"] = [Collection("t1", ownerId) EXCEPT !.sharing = sharing]]
  /\ \E mutable \in BOOLEAN : teams = [t \in Teams |-> [mutable |-> mutable]]
  /\ requests = [p \in Procs |-> NoRequest]
  /\ nextId = Len(permissions) + 1
  /\ snapshots = NoSnapshots

\* sharing: the actor is of the team of the document
InitShare == DocumentRulesInit({"t1"})

NextShare ==
  \/ Serialize("u1", "document", "d1")
  \/ Serialize("u1", "collection", "c1")

SpecShare == InitShare /\ [][NextShare]_vars

\* the whole rule table of documents, for actors of both teams
InitDocumentRules == DocumentRulesInit(Teams)

NextDocumentRules == Serialize("u1", "document", "d1")

SpecDocumentRules == InitDocumentRules /\ [][NextDocumentRules]_vars

\* -------------------------------------------------- update specification
\* Two collections.update requests of the owner u2 on collection c1 run
\* concurrently. c1 carries the Manage grant of the admins (backfill
\* migration) and a Read grant of u1, and may carry the viewer and editor
\* grants of an earlier collections.update.
BackfillGrants ==
  << Permission(101, "t1", <<"role", NULL, "admin">>, <<"collection", "c1">>,
                "manage", "children", 0, NULL),
     Permission(102, "t1", <<"user", "u1", NULL>>, <<"collection", "c1">>,
                "read", "children", 0, NULL) >>

\* the grants an earlier collections.update(permission) left
EarlierRoleGrants(permission) ==
  [i \in 1..Len(RoleGrants(permission)) |->
     Permission(102 + i, "t1", <<"role", NULL, RoleGrants(permission)[i][1]>>,
                <<"collection", "c1">>, RoleGrants(permission)[i][2],
                "children", 0, NULL)]

InitUpdate ==
  /\ \E permission \in UpdatePermissions :
       permissions = BackfillGrants \o EarlierRoleGrants(permission)
  /\ documents = [d \in Documents |-> Document("t1", "c1", NULL)]
  /\ users = InitUsers
  /\ groupUsers = {}
  /\ call = NoCall
  /\ collections = InitCollections
  /\ teams = InitTeams
  /\ requests = [p \in Procs |-> NoRequest]
  /\ nextId = 1
  /\ snapshots = NoSnapshots

NextUpdate ==
  \E p \in Procs :
    \/ \E permission \in UpdatePermissions :
         CollectionsUpdate(p, "u2", "c1", permission)
    \/ PermissionDestroyBegin(p)
    \/ PermissionDestroyEnd(p)
    \/ PermissionBulkCreate(p)
    \/ CollectionSaveWithCtx(p)
    \/ Commit(p)

SpecUpdate == InitUpdate /\ [][NextUpdate]_vars

\* -------------------------------------------------- tenant specification
\* The calculator is asked for user u1, of team t1 or of team t2, on document
\* d1 of team t1 in collection c1. Each team has Children grants on its
\* workspace and on its own resources (t1: c1 and d1; t2: c2), to the
\* editors or to u1; grants to u1 are grants of u1's own team.
TenantResourceCases ==
  << <<"t1", "workspace", NULL>>, <<"t1", "collection", "c1">>,
     <<"t1", "document", "d1">>, <<"t2", "workspace", NULL>>,
     <<"t2", "collection", "c2">> >>
TenantCaseCount == Len(TenantResourceCases) * Len(RuleSubjectCases)

TenantCase(code, id) ==
  LET subject == RuleSubjectCases[(code % 2) + 1]
      resource == TenantResourceCases[(code \div 2) + 1]
      level == LevelCases[(code % 3) + 1]
  IN Permission(id, resource[1], subject, <<resource[2], resource[3]>>,
                level, "children", id, NULL)

InitTenant ==
  /\ \E teamId \in Teams :
       users = [InitUsers EXCEPT !["u1"].teamId = teamId]
  /\ permissions \in
       {table \in {[i \in DOMAIN cs |-> TenantCase(cs[i], i)] :
                     cs \in CodeSequences(0..(TenantCaseCount - 1))} :
          \A i \in DOMAIN table :
            table[i].subjectType = "user" =>
              table[i].teamId = users["u1"].teamId}
  /\ documents = [d \in Documents |-> Document("t1", "c1", NULL)]
  /\ groupUsers = {}
  /\ call = NoCall
  /\ collections = [InitCollections EXCEPT !["c2"].teamId = "t2"]
  /\ teams = InitTeams
  /\ requests = [p \in Procs |-> NoRequest]
  /\ nextId = Len(permissions) + 1
  /\ snapshots = NoSnapshots

NextTenant ==
  \/ GetDocumentPermissionBegin("u1", "d1", NoMembershipId)
  \/ FindAncestorDocumentIdsReturn
  \/ GetDocumentPermissionReturn

SpecTenant == InitTenant /\ [][NextTenant]_vars

\* ------------------------------------------------ snapshot specification
\* Document d1 is resolved, and the calculator is asked for u1 on d1, while
\* d1 is moved between its parent d2 and the roots of collections c1 and
\* c2 and while collections.add_user gives u1 a grant on c1. d2 carries a
\* Children grant to u1. The history of committed states is kept.
InitSnapshot ==
  /\ permissions =
       << Permission(1, "t1", <<"user", "u1", NULL>>, <<"document", "d2">>,
                     "edit", "children", 1, NULL) >>
  /\ documents = [d1 |-> Document("t1", "c1", "d2"),
                  d2 |-> Document("t1", "c1", NULL),
                  d3 |-> Document("t1", "c1", NULL)]
  /\ users = InitUsers
  /\ groupUsers = {}
  /\ call = NoCall
  /\ collections = InitCollections
  /\ teams = InitTeams
  /\ requests = [p \in Procs |-> NoRequest]
  /\ nextId = 2
  /\ snapshots = [kept |-> TRUE, states |-> {}]

NextSnapshot ==
  \/ \E parent \in {NULL, "d2"}, collectionId \in Collections :
       MoveDocument("d1", parent, collectionId)
  \/ CollectionsAddUser("p1", "u2", "c1", "u1", "Read")
  \/ PermissionDestroyBegin("p1")
  \/ PermissionDestroyEnd("p1")
  \/ PermissionCreate("p1")
  \/ Commit("p1")
  \/ ResolveForDocumentBegin("t1", "d1", "c1")
  \/ GetDocumentPermissionBegin("u1", "d1", NoMembershipId)
  \/ FindAncestorDocumentIdsStep
  \/ FindAncestorDocumentIdsReturn
  \/ ResolveForDocumentReturn
  \/ GetDocumentPermissionReturn

SpecSnapshot == InitSnapshot /\ [][NextSnapshot]_vars

\* --------------------------------------------------- audit specification
\* The admin u2 of team t1 pages through the audit view. d1 is a child of d2
\* in collection c1; d3 is in collection c2. c2 may have been deleted with
\* its document, or d3 alone. The grants are those of the resolver
\* specification that belong to team t1.
AuditCodes ==
  {c \in 0..(ResolverCaseCount - 1) : ResolverCase(c, 1).teamId = "t1"}

PageLimits == {1, 2}

InitAudit ==
  /\ permissions \in {ResolverTable(cs) : cs \in CodeSequences(AuditCodes)}
  /\ \E deleted \in {<<NULL, NULL>>, <<NULL, "deleted">>,
                     <<"deleted", "deleted">>} :
       /\ documents =
            [d1 |-> Document("t1", "c1", "d2"),
             d2 |-> Document("t1", "c1", NULL),
             d3 |-> [Document("t1", "c2", NULL) EXCEPT
                       !.deletedAt = deleted[2]]]
       /\ collections =
            [InitCollections EXCEPT !["c2"].deletedAt = deleted[1]]
  /\ users = [InitUsers EXCEPT !["u2"].role = "admin"]
  /\ groupUsers = {}
  /\ call = NoCall
  /\ teams = InitTeams
  /\ requests = [p \in Procs |-> NoRequest]
  /\ nextId = Len(permissions) + 1
  /\ snapshots = NoSnapshots

NextAudit == \E limit \in PageLimits : CollectionsPermissionsAll("u2", limit)

SpecAudit == InitAudit /\ [][NextAudit]_vars

\* ================================================================ claims
\* the parent chain of a document, read off the documents table
RECURSIVE ParentChain(_, _)
ParentChain(d, n) ==
  IF n = 0 \/ documents[d].parentDocumentId = NULL THEN {}
  ELSE {documents[d].parentDocumentId}
         \cup ParentChain(documents[d].parentDocumentId, n - 1)

StrictAncestors(d) == ParentChain(d, Cardinality(Documents)) \ {d}

ActiveOf(table, teamId) ==
  {p \in Rows(table) : p.teamId = teamId /\ p.deletedAt = NULL}

IsWorkspaceChildren(p) ==
  p.resourceType = "workspace" /\ p.inheritMode = "children"
IsCollectionChildren(p, collectionId) ==
  /\ collectionId # NULL
  /\ p.resourceType = "collection" /\ p.resourceId = collectionId
  /\ p.inheritMode = "children"
IsOnDocument(p, documentId) ==
  p.resourceType = "document" /\ p.resourceId = documentId
IsAncestorChildren(p, documentId) ==
  /\ p.resourceType = "document" /\ p.resourceId \in StrictAncestors(documentId)
  /\ p.inheritMode = "children"

\* the grants the contract of resolveForDocument names
ApplicableToDocument(table, teamId, documentId, collectionId) ==
  {p \in ActiveOf(table, teamId) :
     \/ IsWorkspaceChildren(p)
     \/ IsCollectionChildren(p, collectionId)
     \/ IsOnDocument(p, documentId)
     \/ IsAncestorChildren(p, documentId)}

\* the grants the contract of resolveForCollection names
ApplicableToCollection(table, teamId, collectionId) ==
  {p \in ActiveOf(table, teamId) :
     \/ IsWorkspaceChildren(p)
     \/ p.resourceType = "collection" /\ p.resourceId = collectionId}

\* `resolved` lists exactly the rows of `expected`, once each, unchanged
ListsExactly(resolved, expected) ==
  /\ Len(resolved) = Cardinality(expected)
  /\ \A p \in expected :
       \E i \in 1..Len(resolved) :
         /\ resolved[i].id = p.id
         /\ resolved[i].permission = p.permission
         /\ resolved[i].inheritMode = p.inheritMode
         /\ resolved[i].subjectType = p.subjectType
         /\ resolved[i].resourceType = p.resourceType
         /\ resolved[i].resourceId = p.resourceId
  /\ \A i, j \in 1..Len(resolved) :
       resolved[i].id = resolved[j].id => i = j

\* C1: resolveForDocument returns, once each, exactly the active grants of
\* the team that are Workspace Children grants, Children grants of the given
\* collection, grants on the document itself (tagged direct) or Children
\* grants on a strict ancestor; every entry but the direct ones is tagged
\* inherited.
C1_ResolveForDocumentContract ==
  (call.op = "resolveForDocument" /\ call.pc = "done") =>
    /\ ListsExactly(call.resolved,
         ApplicableToDocument(permissions, call.teamId, call.documentId,
                              call.collectionId))
    /\ \A i \in 1..Len(call.resolved) :
         call.resolved[i].source =
           IF IsOnDocument(call.resolved[i], call.documentId)
           THEN "direct" ELSE "inherited"

\* a document resolved with a grant of its own and a grant inherited from an
\* ancestor document
C1_Witness ==
  /\ call.op = "resolveForDocument" /\ call.pc = "done"
  /\ \E i, j \in 1..Len(call.resolved) :
       /\ call.resolved[i].source = "direct"
       /\ call.resolved[j].source = "inherited"
       /\ call.resolved[j].resourceType = "document"

\* C6: resolveForCollection returns exactly the active grants of the team
\* that are Workspace Children grants (inherited) or grants on the
\* collection itself in any inherit mode (direct), whatever their level.
C6_ResolveForCollectionContract ==
  (call.op = "resolveForCollection" /\ call.pc = "done") =>
    /\ ListsExactly(call.resolved,
         ApplicableToCollection(permissions, call.teamId, call.collectionId))
    /\ \A i \in 1..Len(call.resolved) :
         call.resolved[i].source =
           IF call.resolved[i].resourceType = "workspace"
           THEN "inherited" ELSE "direct"

\* a collection resolved with a workspace grant and a Self grant of its own
C6_Witness ==
  /\ call.op = "resolveForCollection" /\ call.pc = "done"
  /\ \E i, j \in 1..Len(call.resolved) :
       /\ call.resolved[i].source = "inherited"
       /\ call.resolved[j].source = "direct"
       /\ call.resolved[j].inheritMode = "self"

\* C2: resolveForDocument terminates on every hierarchy, cyclic ones
\* included: the ancestor walk visits no document twice (it stops on a
\* revisit and resolution goes on with the ancestors found so far).
C2_AncestryVisitsOnce ==
  \A i, j \in 1..Len(call.ancestorIds) :
    call.ancestorIds[i] = call.ancestorIds[j] => i = j

\* ------------------------------------------------- effective permission
\* rank of a grant level: Read(0) < Edit(1) < Manage(2)
LevelRank(level) ==
  CASE level = "read" -> 0 [] level = "edit" -> 1 [] level = "manage" -> 2

\* rank of a calculator result; no access ranks below Read
ResultRank(result) ==
  CASE result = NULL -> -1
    [] result = "Read" -> 0
    [] result = "Edit" -> 1
    [] result = "Manage" -> 2

\* the subject of grant p is user U, U's current role or a group U is in
SubjectIs(p, U) ==
  \/ p.subjectType = "user" /\ p.subjectId = U
  \/ p.subjectType = "role" /\ p.subjectRole = users[U].role
  \/ p.subjectType = "group" /\ <<p.subjectId, U>> \in groupUsers

\* the grants of `table` applicable to user U on document D, grant `skip`
\* left aside
GrantsOf(table, U, D, skip) ==
  {p \in ApplicableToDocument(table, users[U].teamId, D,
                              documents[D].collectionId) :
     SubjectIs(p, U) /\ p.id # skip}

MaxRank(grants) ==
  IF grants = {} THEN -1
  ELSE CHOOSE r \in {LevelRank(p.permission) : p \in grants} :
         \A p \in grants : LevelRank(p.permission) <= r

CalculatorDone ==
  /\ call.op \in {"getDocumentPermission", "isElevatedPermission"}
  /\ call.pc = "done"

\* C3: getDocumentPermission returns the maximum by rank of the levels of
\* the grants of resolveForDocument whose subject matches the user (user id,
\* current role, current group membership), and undefined exactly when there
\* is none.
C3_HighestApplicableLevel ==
  (call.op = "getDocumentPermission" /\ call.pc = "done"
     /\ call.skipMembershipId = NoMembershipId) =>
    LET grants == GrantsOf(permissions, call.userId, call.documentId,
                           NoMembershipId)
    IN /\ ResultRank(call.existingPermission) = MaxRank(grants)
       /\ (call.existingPermission = NULL) <=> (grants = {})

\* two matching grants of different levels, one of them through a group
C3_Witness ==
  /\ call.op = "getDocumentPermission" /\ call.pc = "done"
  /\ call.skipMembershipId = NoMembershipId
  /\ \E p, q \in GrantsOf(permissions, call.userId, call.documentId,
                          NoMembershipId) :
       /\ p.subjectType = "group"
       /\ LevelRank(p.permission) > LevelRank(q.permission)
       /\ ResultRank(call.existingPermission) = LevelRank(p.permission)

\* C7: isElevatedPermission is true iff the rank of the new level is
\* strictly above the rank of the effective permission (computed under the
\* same options), no access ranking below Read.
C7_ElevatedIffStrictlyHigher ==
  (call.op = "isElevatedPermission" /\ call.pc = "done") =>
    (call.isElevated <=>
       ResultRank(call.permission) >
         MaxRank(GrantsOf(permissions, call.userId, call.documentId,
                          call.skipMembershipId)))

\* the user already holds exactly the new level: not elevated
C7_Witness ==
  /\ call.op = "isElevatedPermission" /\ call.pc = "done"
  /\ call.existingPermission = call.permission
  /\ ~call.isElevated

\* the grant named by skipMembershipId, if it is applicable to the user
SkippedGrants ==
  {p \in GrantsOf(permissions, call.userId, call.documentId, NoMembershipId) :
     p.id = call.skipMembershipId}

\* C8: with skipMembershipId g the calculator returns the maximum level over
\* the applicable grants other than g; if g is the only applicable grant the
\* result is undefined and isElevated(Read) is true; if g names no
\* applicable grant the result is that of the call without g.
C8_SkipExcludesGrant ==
  (CalculatorDone /\ call.skipMembershipId # NoMembershipId) =>
    LET all == GrantsOf(permissions, call.userId, call.documentId,
                        NoMembershipId)
    IN /\ ResultRank(call.existingPermission) = MaxRank(all \ SkippedGrants)
       /\ (all # {} /\ all = SkippedGrants) =>
            /\ call.existingPermission = NULL
            /\ (call.op = "isElevatedPermission" /\ call.permission = "Read")
                 => call.isElevated
       /\ SkippedGrants = {} =>
            ResultRank(call.existingPermission) = MaxRank(all)

\* the only applicable grant is skipped: undefined, and Read elevates
C8_Witness ==
  /\ call.op = "isElevatedPermission" /\ call.pc = "done"
  /\ call.permission = "Read"
  /\ SkippedGrants # {}
  /\ SkippedGrants = GrantsOf(permissions, call.userId, call.documentId,
                              NoMembershipId)
  /\ call.existingPermission = NULL /\ call.isElevated

\* the table after user U is assigned `level` on document D: grant `skip`
\* (if given) is soft-deleted and a grant of the user on the document added
AssignedTable(table, U, D, level, skip) ==
  Append([i \in 1..Len(table) |->
            IF table[i].id = skip
            THEN [table[i] EXCEPT !.deletedAt = "deleted"] ELSE table[i]],
         Permission(Len(table) + 1, users[U].teamId, <<"user", U, NULL>>,
                    <<"document", D>>, level, "self", Len(table) + 1, NULL))

\* the level a DocumentPermission is stored as
StoredLevel(permission) ==
  CASE permission = "Read" -> "read"
    [] permission = "Edit" -> "edit"
    [] permission = "Manage" -> "manage"

RankBeforeAssignment ==
  MaxRank(GrantsOf(permissions, call.userId, call.documentId, NoMembershipId))

RankWithoutSkipped ==
  MaxRank(GrantsOf(permissions, call.userId, call.documentId,
                   call.skipMembershipId))

RankAfterAssignment ==
  MaxRank(GrantsOf(AssignedTable(permissions, call.userId, call.documentId,
                                 StoredLevel(call.permission),
                                 call.skipMembershipId),
                   call.userId, call.documentId, NoMembershipId))

\* C9 as stated: isElevatedPermission is true exactly when the assignment
\* (replacing grant g when g is given) makes the effective permission
\* strictly higher than it was before the assignment.
C9_ElevatedIffAccessIncreases ==
  (call.op = "isElevatedPermission" /\ call.pc = "done") =>
    (call.isElevated <=> RankAfterAssignment > RankBeforeAssignment)

\* C9 amended: isElevatedPermission is true exactly when the assignment
\* makes the effective permission strictly higher than the permission the
\* user holds through the grants other than g; without g that is the
\* permission before the assignment.
C9_ElevatedIffAboveOtherGrants ==
  (call.op = "isElevatedPermission" /\ call.pc = "done") =>
    /\ call.isElevated <=> RankAfterAssignment > RankWithoutSkipped
    /\ call.skipMembershipId = NoMembershipId =>
         (call.isElevated <=> RankAfterAssignment > RankBeforeAssignment)

\* the replaced grant is the user's highest: the call reports an elevation
\* although the assignment does not raise the effective permission
C9_Witness ==
  /\ call.op = "isElevatedPermission" /\ call.pc = "done"
  /\ SkippedGrants # {}
  /\ call.isElevated
  /\ RankAfterAssignment <= RankBeforeAssignment

\* the tuple a grant is identified by
GrantTuple(r) ==
  <<r.teamId, <<r.subjectType, r.subjectId, r.subjectRole>>,
    <<r.resourceType, r.resourceId>>, r.inheritMode>>

\* C4: in the committed table no two active grants have the same team,
\* subject, resource and inheritMode, whatever sharing requests have run and
\* committed.
C4_OneActiveGrantPerTuple ==
  \A i, j \in 1..Len(permissions) :
    (/\ i # j
     /\ permissions[i].deletedAt = NULL
     /\ permissions[j].deletedAt = NULL)
    => GrantTuple(permissions[i]) # GrantTuple(permissions[j])

\* a permission change has committed: the tuple has a revoked grant and the
\* active grant that replaced it
C4_Witness ==
  \E i, j \in 1..Len(permissions) :
    /\ permissions[i].deletedAt # NULL
    /\ permissions[j].deletedAt = NULL
    /\ GrantTuple(permissions[i]) = GrantTuple(permissions[j])
    /\ permissions[i].permission # permissions[j].permission

SetPermissionOps ==
  {"collections.add_user", "collections.add_group",
   "documents.add_user", "documents.add_group"}

\* the active rows a transaction has inserted and not yet committed
InsertedBy(p) == {r \in Rows(requests[p].created) : r.deletedAt = NULL}

\* C5: concurrent set-permission requests for one tuple are serialised: no
\* row is soft-deleted by two open transactions, none holds the soft-delete
\* of a row another transaction has already revoked, and no two open
\* transactions both hold a new active grant for the tuple.
C5_SetPermissionSerialised ==
  \A p, q \in Procs :
    p # q =>
      /\ requests[p].destroyed \cap requests[q].destroyed = {}
      /\ requests[p].destroyed \cap Revoked(permissions) = {}
      /\ \A r1 \in InsertedBy(p), r2 \in InsertedBy(q) :
           GrantTuple(r1) # GrantTuple(r2)

\* two set-permission requests for the same tuple are open, one has
\* soft-deleted the prior grant and the other waits for that row
C5_Witness ==
  \E p, q \in Procs :
    /\ p # q
    /\ requests[p].op \in SetPermissionOps
    /\ requests[q].op \in SetPermissionOps
    /\ requests[p].where = requests[q].where
    /\ requests[p].pc = "commit"
    /\ requests[p].destroyed # {}
    /\ InsertedBy(p) # {}
    /\ requests[q].pc = "destroying"
    /\ requests[q].targets \cap requests[p].destroyed # {}

\* the grants of the committed table that bear on the calculator call,
\* revoked or not
GrantsBearingOnCall ==
  {r \in Rows(permissions) :
     /\ r.teamId = call.teamId
     /\ SubjectIs(r, call.userId)
     /\ \/ IsWorkspaceChildren(r)
        \/ IsCollectionChildren(r, call.collectionId)
        \/ IsOnDocument(r, call.documentId)
        \/ IsAncestorChildren(r, call.documentId)}

\* C10: a resolution never returns a grant that was revoked (soft-deleted
\* and committed) when it started, and the permission getDocumentPermission
\* computes is held through grants that were not revoked at that time.
C10_RevokedGrantsNotResolved ==
  call.pc = "done" =>
    /\ \A i \in 1..Len(call.resolved) :
         call.resolved[i].id \notin call.revokedAtStart
    /\ call.op = "getDocumentPermission" =>
         ResultRank(call.existingPermission) <=
           MaxRank({r \in GrantsBearingOnCall :
                      r.id \notin call.revokedAtStart})

\* getDocumentPermission has returned after the revoke of a grant that
\* would have given the user more than they now hold
C10_Witness ==
  /\ call.op = "getDocumentPermission"
  /\ call.pc = "done"
  /\ \E r \in GrantsBearingOnCall :
       /\ r.id \in call.revokedAtStart
       /\ LevelRank(r.permission) > ResultRank(call.existingPermission)

\* the active grants of the call's team
ActiveOfCallTeam == ActiveOf(permissions, call.teamId)

\* grant p is an entry of the list the call returned
Returned(p) == \E i \in 1..Len(call.resolved) : call.resolved[i].id = p.id

\* grant p is an entry of the list the call returned, tagged `source`
ReturnedAs(p, source) ==
  \E i \in 1..Len(call.resolved) :
    call.resolved[i].id = p.id /\ call.resolved[i].source = source

ResolveForDocumentDone == call.op = "resolveForDocument" /\ call.pc = "done"
ResolveForCollectionDone == call.op = "resolveForCollection" /\ call.pc = "done"

\* C11: resolving document D returns an active Children grant on document X
\* as inherited when D is a strict descendant of X at any depth, and does
\* not return it when D is neither X nor a descendant of X (an ancestor, a
\* sibling, an unrelated document); a Self grant on X is returned only when
\* D is X.
C11_DocumentGrantVisibility ==
  ResolveForDocumentDone =>
    \A p \in ActiveOfCallTeam :
      p.resourceType = "document" =>
        /\ (p.inheritMode = "children"
              /\ p.resourceId \in StrictAncestors(call.documentId))
             => ReturnedAs(p, "inherited")
        /\ (p.resourceId # call.documentId
              /\ p.resourceId \notin StrictAncestors(call.documentId))
             => ~Returned(p)
        /\ (p.inheritMode = "self" /\ p.resourceId # call.documentId)
             => ~Returned(p)
        /\ (p.inheritMode = "self" /\ p.resourceId = call.documentId)
             => ReturnedAs(p, "direct")

\* a grandchild resolved: the Children grant of its grandparent is returned
\* and the Self grant of its parent is not
C11_Witness ==
  /\ ResolveForDocumentDone
  /\ \E p, q \in ActiveOfCallTeam :
       /\ p.resourceType = "document" /\ p.inheritMode = "children"
       /\ documents[call.documentId].parentDocumentId # NULL
       /\ p.resourceId =
            documents[documents[call.documentId].parentDocumentId].parentDocumentId
       /\ ReturnedAs(p, "inherited")
       /\ q.resourceType = "document" /\ q.inheritMode = "self"
       /\ q.resourceId = documents[call.documentId].parentDocumentId
       /\ ~Returned(q)

\* C12: an active Children grant on collection C is returned when resolving
\* a document of C (the resolver is handed the document's collection), at
\* any depth, and no resolution of another collection or of a document
\* resolved with another collection returns it; a Self grant on C is
\* returned by resolveForCollection(C) only, never by a document resolution.
C12_CollectionGrantVisibility ==
  \A p \in ActiveOfCallTeam :
    p.resourceType = "collection" =>
      /\ ResolveForDocumentDone =>
           /\ (p.inheritMode = "children" /\ p.resourceId = call.collectionId)
                => ReturnedAs(p, "inherited")
           /\ p.resourceId # call.collectionId => ~Returned(p)
           /\ p.inheritMode = "self" => ~Returned(p)
      /\ ResolveForCollectionDone =>
           /\ p.resourceId = call.collectionId => ReturnedAs(p, "direct")
           /\ p.resourceId # call.collectionId => ~Returned(p)

\* a document two levels deep resolved with its collection: the Children
\* grant of the collection is returned, the Self grant of the collection is
\* not
C12_Witness ==
  /\ ResolveForDocumentDone
  /\ call.collectionId = documents[call.documentId].collectionId
  /\ Len(call.ancestorIds) = 3
  /\ \E p, q \in ActiveOfCallTeam :
       /\ p.resourceType = "collection" /\ p.resourceId = call.collectionId
       /\ p.inheritMode = "children" /\ ReturnedAs(p, "inherited")
       /\ q.resourceType = "collection" /\ q.resourceId = call.collectionId
       /\ q.inheritMode = "self" /\ ~Returned(q)

\* C13: an active Workspace Children grant of the team is returned, tagged
\* inherited, by every resolveForCollection and every resolveForDocument of
\* that team, with or without a collection and at any depth.
C13_WorkspaceGrantVisibility ==
  (ResolveForDocumentDone \/ ResolveForCollectionDone) =>
    \A p \in ActiveOfCallTeam :
      IsWorkspaceChildren(p) => ReturnedAs(p, "inherited")

\* a document two levels deep and without collection resolved with a
\* Workspace Children grant in the table
C13_Witness ==
  /\ ResolveForDocumentDone
  /\ call.collectionId = NULL
  /\ Len(call.ancestorIds) = 3
  /\ \E p \in ActiveOfCallTeam :
       IsWorkspaceChildren(p) /\ ReturnedAs(p, "inherited")

\* --------------------------------------------------------- role matching
\* the name a policy gives to the level of a grant
LevelNamed(level) ==
  CASE level = "read" -> "Read" [] level = "edit" -> "Edit"
    [] level = "manage" -> "Manage"

\* id is one of the ids includesPermission returned
ReturnedId(id) ==
  \E j \in 1..Len(call.result.grantIds) : call.result.grantIds[j] = id

\* C14: role grants are matched against the role the user holds when the
\* evaluation runs. After the role of a user was changed, with no grant
\* touched, getDocumentPermission returns the highest level among the
\* applicable grants to the user, to the user's groups and to the role the
\* user holds now, grants to any other role not counting; and
\* includesPermission returns a role grant of an allowed level exactly when
\* its role is the role the actor holds now.
C14_RoleGrantsFollowCurrentRole ==
  /\ (call.op = "getDocumentPermission" /\ call.pc = "done") =>
       LET U == call.userId
           applicable ==
             ApplicableToDocument(permissions, users[U].teamId,
               call.documentId, documents[call.documentId].collectionId)
           counted ==
             {p \in applicable :
                \/ p.subjectType = "user" /\ p.subjectId = U
                \/ p.subjectType = "group" /\ <<p.subjectId, U>> \in groupUsers
                \/ p.subjectType = "role" /\ p.subjectRole = users[U].role}
       IN ResultRank(call.existingPermission) = MaxRank(counted)
  /\ (call.op = "includesPermission" /\ call.pc = "done"
        /\ call.result.owner = NULL) =>
       \A i \in 1..Len(call.grants) :
         (/\ call.grants[i].subjectType = "role"
          /\ LevelNamed(call.grants[i].permission) \in call.allowedLevels) =>
           (ReturnedId(call.grants[i].id) <=>
              call.grants[i].subjectRole = users[call.userId].role)

\* u1, an editor at first, is a viewer now; a Manage grant to editors and a
\* Read grant to viewers apply to d1, and the evaluation returns Read
C14_Witness ==
  /\ users["u1"].role = "viewer"
  /\ call.op = "getDocumentPermission" /\ call.pc = "done"
  /\ call.userId = "u1"
  /\ call.existingPermission = "Read"
  /\ \E p, q \in Rows(permissions) :
       /\ p.subjectType = "role" /\ p.subjectRole = "editor"
       /\ p.permission = "manage"
       /\ q.subjectType = "role" /\ q.subjectRole = "viewer"
       /\ q.permission = "read"

\* ------------------------------------------------------- matching helper
\* the owner recorded on the resource of the helper call
ResourceOwnerId ==
  IF call.resourceType = "collection"
  THEN collections[call.resourceId].ownerId
  ELSE documents[call.resourceId].ownerId

IncludesPermissionDone ==
  call.op = "includesPermission" /\ call.pc = "done"

\* C15: for a collection and for a document alike, includesPermission
\* returns the truthy owner marker whenever the owner of the resource is the
\* actor, whatever the allowed levels and whatever the grants of the
\* resource.
C15_OwnerMarkerBothKinds ==
  (/\ IncludesPermissionDone
   /\ call.resourceId # NULL
   /\ ResourceOwnerId = call.userId) =>
    /\ call.result.truthy
    /\ call.result.owner = call.resourceId

\* the positions of the grants of the call that the helper has to keep
ExpectedPositions ==
  {i \in 1..Len(call.grants) :
     /\ \/ /\ call.grants[i].subjectType = "user"
           /\ call.grants[i].subjectId = call.userId
        \/ /\ call.grants[i].subjectType = "role"
           /\ call.grants[i].subjectRole = users[call.userId].role
        \/ call.grants[i].subjectType = "group"
     /\ LevelNamed(call.grants[i].permission) \in call.allowedLevels}

\* ids lists the grants at the positions, in the order of the positions
ListsInOrder(ids, positions) ==
  /\ Len(ids) = Cardinality(positions)
  /\ \E f \in [1..Len(ids) -> positions] :
       /\ \A i, j \in 1..Len(ids) : i < j => f[i] < f[j]
       /\ \A i \in 1..Len(ids) : ids[i] = call.grants[f[i]].id

\* C16: when the actor is not the owner, includesPermission returns the ids
\* of exactly the grants of resource.grants whose subject matches the actor
\* (a user grant of the actor, a role grant of the actor's current role, any
\* group grant) and whose level is allowed, in list order, and false iff
\* there is none; the null resource gives false.
C16_MatchingGrantIdsInOrder ==
  IncludesPermissionDone =>
    IF call.resourceId = NULL THEN ~call.result.truthy
    ELSE ResourceOwnerId # call.userId =>
           /\ call.result.owner = NULL
           /\ ListsInOrder(call.result.grantIds, ExpectedPositions)
           /\ call.result.truthy <=> ExpectedPositions # {}

\* a grant to a group the actor is not in is returned, and a grant to the
\* actor of a level that is not asked for is left out
C16_Witness ==
  /\ IncludesPermissionDone
  /\ call.resourceId # NULL
  /\ ResourceOwnerId # call.userId
  /\ \E i, j \in 1..Len(call.grants) :
       /\ call.grants[i].subjectType = "group"
       /\ <<call.grants[i].subjectId, call.userId>> \notin groupUsers
       /\ ReturnedId(call.grants[i].id)
       /\ call.grants[j].subjectType = "user"
       /\ call.grants[j].subjectId = call.userId
       /\ ~ReturnedId(call.grants[j].id)

\* ----------------------------------------------------------------- rules
\* can(actor, action, document) has been evaluated
CanDocumentDone(action) ==
  /\ call.op = "can" /\ call.pc = "done"
  /\ call.resourceType = "document"
  /\ call.action = action

\* the document of the call is a draft of the actor: unpublished, created by
\* the actor, of the actor's team, which can be changed, neither deleted nor
\* archived
DraftOfActor ==
  /\ documents[call.resourceId].publishedAt = NULL
  /\ documents[call.resourceId].createdById = call.userId
  /\ documents[call.resourceId].teamId = users[call.userId].teamId
  /\ teams[users[call.userId].teamId].mutable
  /\ documents[call.resourceId].deletedAt = NULL
  /\ documents[call.resourceId].archivedAt = NULL

\* C17: the creator of a still-unpublished draft (same team, team mutable,
\* draft neither deleted nor archived) can update it and can delete it, even
\* with no grant on the draft and a collection that gives the creator
\* nothing.
C17_DraftCreatorUpdatesAndDeletes ==
  ((CanDocumentDone("update") \/ CanDocumentDone("delete")) /\ DraftOfActor)
    => call.allowed

\* the active grants made on collection c that match the user, by user id or
\* by current role
MatchingCollectionGrants(c, U) ==
  {p \in Rows(permissions) :
     /\ p.deletedAt = NULL
     /\ p.resourceType = "collection" /\ p.resourceId = c
     /\ \/ p.subjectType = "user" /\ p.subjectId = U
        \/ p.subjectType = "role" /\ p.subjectRole = users[U].role
        \/ p.subjectType = "group" /\ <<p.subjectId, U>> \in groupUsers}

\* the collection of the document of the call lets the actor update its
\* documents: the actor owns it or holds an Edit or Manage grant on it
CollectionAllowsUpdateDocument ==
  LET c == documents[call.resourceId].collectionId
  IN /\ c # NULL
     /\ collections[c].teamId = users[call.userId].teamId
     /\ \/ collections[c].ownerId = call.userId
        \/ \E p \in MatchingCollectionGrants(c, call.userId) :
             p.permission \in {"edit", "manage"}

\* C18: an active document of the actor's team (team mutable) whose
\* collection lets the actor update documents can be updated by the actor,
\* even with no grant on the document itself and the actor not its creator.
C18_CollectionUpdateCascades ==
  (/\ CanDocumentDone("update")
   /\ documents[call.resourceId].deletedAt = NULL
   /\ documents[call.resourceId].archivedAt = NULL
   /\ documents[call.resourceId].teamId = users[call.userId].teamId
   /\ teams[users[call.userId].teamId].mutable
   /\ CollectionAllowsUpdateDocument) => call.allowed

\* a published document created by somebody else, with no grant on it, in a
\* collection owned by somebody else on which the actor's role has an Edit
\* grant: update is allowed
C18_Witness ==
  /\ CanDocumentDone("update")
  /\ call.allowed
  /\ documents[call.resourceId].createdById # call.userId
  /\ documents[call.resourceId].publishedAt # NULL
  /\ documents[call.resourceId].collectionId # NULL
  /\ collections[documents[call.resourceId].collectionId].ownerId # call.userId
  /\ \A p \in Rows(permissions) : p.resourceType # "document"
  /\ \E p \in Rows(permissions) :
       /\ p.resourceType = "collection"
       /\ p.subjectType = "role" /\ p.permission = "edit"

\* ------------------------------------------------------- audit history
\* C19: no sharing operation removes a row from the grant store or changes
\* the level, inherit mode, subject or resource of an existing row; the only
\* change made to an existing row is setting deletedAt, once; every row that
\* is added carries an id no row had before. A permission change therefore
\* leaves the prior grant soft-deleted with its level and adds a new row.
C19_GrantsOnlySoftDeleted ==
  [][/\ Len(permissions') >= Len(permissions)
     /\ \A i \in 1..Len(permissions) :
          /\ permissions'[i] =
               [permissions[i] EXCEPT !.deletedAt = permissions'[i].deletedAt]
          /\ permissions[i].deletedAt # NULL =>
               permissions'[i].deletedAt = permissions[i].deletedAt
     /\ \A j \in (Len(permissions) + 1)..Len(permissions') :
          \A i \in 1..Len(permissions'):
            i # j => permissions'[i].id # permissions'[j].id]_vars

\* the permission of a user on a collection was changed: the old grant is
\* soft-deleted with its level, the grant of the new level has another id
C19_Witness ==
  \E i, j \in 1..Len(permissions) :
    /\ i < j
    /\ permissions[i].deletedAt # NULL
    /\ permissions[j].deletedAt = NULL
    /\ permissions[i].subjectType = "user"
    /\ permissions[i].subjectId = permissions[j].subjectId
    /\ permissions[i].resourceId = permissions[j].resourceId
    /\ permissions[i].permission = "read"
    /\ permissions[j].permission = "manage"
    /\ permissions[i].id # permissions[j].id

\* ------------------------------------------------------------------ gate
\* the rule that gates the endpoint of request req for its actor: update on
\* the collection for the collection endpoints, manageUsers on the document
\* for the document endpoints, nothing for documents.remove_user when the
\* actor removes themself
GatingRule(req) ==
  IF req.op \in {"collections.add_user", "collections.remove_user",
                 "collections.add_group", "collections.remove_group",
                 "collections.update"}
  THEN CanUpdateCollection(Actor(req.actor), req.where.resourceId)
  ELSE IF req.op = "documents.remove_user" /\ req.where.subjectId = req.actor
  THEN TRUE
  ELSE CanManageUsersDocument(Actor(req.actor), req.where.resourceId)

\* C20: in every grant-mutating endpoint a request whose gating rule is
\* falsy for the actor ends in Forbidden, having issued no statement, and
\* its end leaves the grant store exactly as it was.
C20_ForbiddenLeavesStoreUnchanged ==
  [][\A p \in Procs :
       /\ (/\ requests[p].pc = "idle"
           /\ requests'[p].pc # "idle"
           /\ ~GatingRule(requests'[p])) =>
            /\ requests'[p].pc = "forbidden"
            /\ requests'[p].destroyed = {}
            /\ requests'[p].created = <<>>
            /\ permissions' = permissions
       /\ (requests[p].pc = "forbidden" /\ requests'[p] # requests[p]) =>
            /\ requests'[p] = NoRequest
            /\ permissions' = permissions]_vars

\* u1 holds a Read grant on c1 and asks for collections.update: the request
\* is in Forbidden
C20_Witness ==
  /\ requests["p1"].pc = "forbidden"
  /\ requests["p1"].actor = "u1"
  /\ requests["p1"].op = "collections.update"
  /\ \E r \in Rows(permissions) :
       /\ r.deletedAt = NULL
       /\ r.subjectType = "user" /\ r.subjectId = "u1"
       /\ r.resourceType = "collection" /\ r.permission = "read"

\* ------------------------------------------------------------- ordering
\* the stored row an entry of a resolver result was built from
RowOfEntry(entry) == CHOOSE r \in Rows(permissions) : r.id = entry.id

\* rows a and b tie on resource kind, subject kind and creation time
TieOnOrderKeys(a, b) ==
  /\ a.resourceType = b.resourceType
  /\ a.subjectType = b.subjectType
  /\ a.createdAt = b.createdAt

\* C21: the sequence a resolver call returns is fixed by the grant snapshot:
\* it ascends by resource kind, then subject kind, then creation time, and
\* grants that tie on all three keys keep their creation order, so that two
\* calls with the same arguments over the same snapshot return the same
\* sequence.
C21_ResolveOrderDetermined ==
  (call.op \in {"resolveForCollection", "resolveForDocument"}
     /\ call.pc = "done") =>
    \A i, j \in 1..Len(call.resolved) :
      i < j =>
        LET a == RowOfEntry(call.resolved[i])
            b == RowOfEntry(call.resolved[j])
        IN /\ DefaultOrderLeq(a, b)
           /\ TieOnOrderKeys(a, b) => a.id < b.id

\* ---------------------------------------------------- collection rules
\* serialize(actor, collection) has been evaluated
SerializeCollectionDone ==
  /\ call.op = "serialize" /\ call.pc = "done"
  /\ call.resourceType = "collection"

\* the capabilities of a collection that ask for Manage
ManageCapabilities ==
  {"update", "archive", "export", "move", "share", "deleteDocument"}

\* the capabilities an Edit grant carries
EditCapabilities ==
  {"read", "readDocument", "updateDocument", "createDocument"}

\* the levels of the grants on the collection of the call that match the
\* actor
MatchingLevels ==
  {p.permission : p \in MatchingCollectionGrants(call.resourceId, call.userId)}

\* the original C22: for a collection the actor does not own, the Manage
\* capabilities need a matching Manage grant; matching grants of at most
\* Edit give none of them but still give read, readDocument, updateDocument
\* and createDocument; no matching grant gives no capability at all.
C22_ManageCapabilitiesNeedManage ==
  (SerializeCollectionDone
     /\ collections[call.resourceId].ownerId # call.userId) =>
    /\ call.abilities \cap ManageCapabilities # {} =>
         "manage" \in MatchingLevels
    /\ (MatchingLevels # {} /\ "manage" \notin MatchingLevels) =>
         /\ call.abilities \cap ManageCapabilities = {}
         /\ EditCapabilities \subseteq call.abilities
    /\ MatchingLevels = {} => call.abilities = {}

\* C22 (amended): for a collection the actor does not own, the Manage
\* capabilities need a matching Manage grant, and no matching grant gives no
\* capability at all; on an active collection of the actor's own team, the
\* team being mutable, an actor whose highest matching grant is Edit gets
\* none of the Manage capabilities and is allowed read, readDocument,
\* updateDocument and createDocument.
C22_ManageCapabilitiesNeedManageAmended ==
  (SerializeCollectionDone
     /\ collections[call.resourceId].ownerId # call.userId) =>
    /\ call.abilities \cap ManageCapabilities # {} =>
         "manage" \in MatchingLevels
    /\ (/\ "edit" \in MatchingLevels /\ "manage" \notin MatchingLevels
        /\ collections[call.resourceId].archivedAt = NULL
        /\ collections[call.resourceId].deletedAt = NULL
        /\ collections[call.resourceId].teamId = users[call.userId].teamId
        /\ teams[users[call.userId].teamId].mutable) =>
         /\ call.abilities \cap ManageCapabilities = {}
         /\ EditCapabilities \subseteq call.abilities
    /\ MatchingLevels = {} => call.abilities = {}

\* an editor whose group holds Edit on the active collection of somebody
\* else: the Edit capabilities, none of the Manage capabilities
C22_Witness ==
  /\ SerializeCollectionDone
  /\ collections[call.resourceId].ownerId # call.userId
  /\ MatchingLevels = {"edit"}
  /\ \E p \in MatchingCollectionGrants(call.resourceId, call.userId) :
       p.subjectType = "group"
  /\ EditCapabilities \subseteq call.abilities
  /\ call.abilities \cap ManageCapabilities = {}

\* C29: every action of the rule table on a collection is refused to an
\* actor of another team, whatever role or group grants the collection has.
C29_OtherTeamRefused ==
  (SerializeCollectionDone
     /\ users[call.userId].teamId # collections[call.resourceId].teamId) =>
    call.abilities = {}

\* ------------------------------------------------------ document rules
\* serialize(actor, document) has been evaluated
SerializeDocumentDone ==
  /\ call.op = "serialize" /\ call.pc = "done"
  /\ call.resourceType = "document"

\* the active grants made on document d that match the user, by user id or
\* by current role
MatchingDocumentGrants(d, U) ==
  {p \in Rows(permissions) :
     /\ p.deletedAt = NULL
     /\ p.resourceType = "document" /\ p.resourceId = d
     /\ \/ p.subjectType = "user" /\ p.subjectId = U
        \/ p.subjectType = "role" /\ p.subjectRole = users[U].role
        \/ p.subjectType = "group" /\ <<p.subjectId, U>> \in groupUsers}

\* the document of the call is active, the actor holds a matching Manage
\* grant on it, the team is mutable and its collection does not disable
\* sharing
ManagedShareableDocument ==
  LET d == documents[call.resourceId]
  IN /\ d.archivedAt = NULL /\ d.deletedAt = NULL
     /\ \E p \in MatchingDocumentGrants(call.resourceId, call.userId) :
          p.permission = "manage"
     /\ teams[users[call.userId].teamId].mutable
     /\ d.collectionId # NULL => collections[d.collectionId].sharing

C23_WitnessViewer ==
  /\ SerializeDocumentDone /\ ManagedShareableDocument
  /\ call.userRole = "viewer"
  /\ "manageUsers" \in call.abilities
  /\ "share" \notin call.abilities

\* the capabilities that modify, manage or delete a document
ModifyingCapabilities == DocumentActions \ {"read"}

ViewerEditorGrants(table, c) ==
  {r \in Rows(table) :
     /\ r.deletedAt = NULL
     /\ r.resourceType = "collection" /\ r.resourceId = c
     /\ r.subjectType = "role" /\ r.subjectRole \in {"viewer", "editor"}}

\* every other grant of collection c in `table`
OtherCollectionGrants(table, c) ==
  {r \in Rows(table) :
     /\ r.resourceType = "collection" /\ r.resourceId = c
     /\ ~(r.subjectType = "role" /\ r.subjectRole \in {"viewer", "editor"})}

\* the transaction of request p commits in this step
Commits(p) == requests[p].pc = "commit" /\ requests'[p].pc = "idle"

\* C25: when a collections.update request carrying a permission commits,
\* the active viewer and editor Role grants of the collection are exactly
\* those of the permission (Read: viewer Read, editor Read; Edit: viewer
\* Read, editor Edit; null: none), all Children grants, and every other
\* grant of the collection is unchanged.
C25_UpdateReplacesRoleGrants ==
  [][\A p \in Procs :
       (Commits(p) /\ requests[p].op = "collections.update") =>
         LET c == requests[p].where.resourceId
             expected == RoleGrants(requests[p].permission)
             after == ViewerEditorGrants(permissions', c)
         IN /\ {<<r.subjectRole, r.permission>> : r \in after}
                 = {expected[i] : i \in 1..Len(expected)}
            /\ Cardinality(after) = Len(expected)
            /\ \A r \in after : r.inheritMode = "children"
            /\ OtherCollectionGrants(permissions', c)
                 = OtherCollectionGrants(permissions, c)]_vars

\* --------------------------------------------------------------- moves
\* C26: a move changes no grant, and a resolution reflects every move
\* committed before it started: the ancestry query returns the strict
\* ancestors of the hierarchy it runs on, and the inherited document grants
\* that are returned are Children grants on these ancestors only (grants on
\* former ancestors are absent), whichever document of the moved subtree is
\* resolved.
C26_MoveKeepsGrantsAndReparents ==
  [][/\ documents' # documents => permissions' = permissions
     /\ (call.pc = "ancestry" /\ call'.pc = "findAll") =>
          InheritedAncestorIds(call'.ancestorIds, call.documentId)
            = StrictAncestors(call.documentId)
     /\ (call.op = "resolveForDocument" /\ call.pc = "findAll"
           /\ call'.pc = "done") =>
          \A i \in 1..Len(call'.resolved) :
            LET entry == call'.resolved[i]
            IN (entry.resourceType = "document"
                  /\ entry.source = "inherited") =>
                 /\ entry.resourceId \in
                      InheritedAncestorIds(call.ancestorIds, call.documentId)
                 /\ entry.inheritMode = "children"]_vars

\* a moved document resolved: the Children grant of its new parent is
\* returned as inherited, the Children grant of a document that is not an
\* ancestor is not returned
C26_Witness ==
  /\ call.op = "resolveForDocument" /\ call.pc = "done"
  /\ documents[call.documentId].parentDocumentId # NULL
  /\ \E i \in 1..Len(call.resolved) :
       /\ call.resolved[i].source = "inherited"
       /\ call.resolved[i].resourceId
            = documents[call.documentId].parentDocumentId
  /\ \E p \in Rows(permissions) :
       /\ p.resourceType = "document" /\ p.inheritMode = "children"
       /\ p.resourceId \notin StrictAncestors(call.documentId) \cup {call.documentId}
       /\ \A i \in 1..Len(call.resolved) : call.resolved[i].id # p.id

\* -------------------------------------------------------------- tenants
\* C28: the calculator returns no level for a user on a document of another
\* team, whatever grants the user's own team has.
C28_OtherTeamDocumentGetsNone ==
  (call.op = "getDocumentPermission" /\ call.pc = "done"
     /\ users[call.userId].teamId # documents[call.documentId].teamId) =>
    call.existingPermission = NULL

\* ------------------------------------------------------------ snapshots
\* the strict ancestors of document d in the hierarchy docs
RECURSIVE ParentChainIn(_, _, _)
ParentChainIn(docs, d, n) ==
  IF n = 0 \/ docs[d].parentDocumentId = NULL THEN {}
  ELSE {docs[d].parentDocumentId}
         \cup ParentChainIn(docs, docs[d].parentDocumentId, n - 1)

\* the reference resolution over one committed state <<docs, table>>: the
\* active grants of the team that apply to the document
ReferenceGrants(state, teamId, documentId, collectionId) ==
  LET docs == state[1]
      table == state[2]
      ancestors == ParentChainIn(docs, documentId, Cardinality(Documents))
                     \ {documentId}
  IN {p \in Rows(table) :
        /\ p.teamId = teamId /\ p.deletedAt = NULL
        /\ \/ p.resourceType = "workspace" /\ p.inheritMode = "children"
           \/ /\ p.resourceType = "collection" /\ p.resourceId = collectionId
              /\ p.inheritMode = "children"
           \/ p.resourceType = "document" /\ p.resourceId = documentId
           \/ /\ p.resourceType = "document" /\ p.resourceId \in ancestors
              /\ p.inheritMode = "children"}

\* the reference effective permission of the user of the call over one
\* committed state: the highest level of the applicable grants that match
ReferenceLevel(state) ==
  HighestPermission(
    {LevelToDocumentPermission(p.permission) :
       p \in {q \in ReferenceGrants(state, call.teamId, call.documentId,
                      state[1][call.documentId].collectionId) :
                SubjectMatches(q, call.userId, call.userRole, call.groupIds)}})

\* C27: what a resolveForDocument or getDocumentPermission call returns is
\* the reference result over one committed state of (hierarchy, grants) that
\* existed between its start and its return.
C27_ResultOfOneCommittedState ==
  /\ (call.op = "resolveForDocument" /\ call.pc = "done") =>
       \E state \in snapshots.states :
         {call.resolved[i].id : i \in 1..Len(call.resolved)}
           = {p.id : p \in ReferenceGrants(state, call.teamId,
                             call.documentId, call.collectionId)}
  /\ (call.op = "getDocumentPermission" /\ call.pc = "done") =>
       \E state \in snapshots.states :
         call.existingPermission = ReferenceLevel(state)

\* ---------------------------------------------------------------- audit
\* C24: the audit view, taken over all pages, has an entry for every active
\* grant of the caller's team, and every entry is tagged direct when it is
\* listed under the grant's own resource and inherited otherwise.
C24_AuditListsEveryActiveGrant ==
  (call.op = "collections.permissions_all" /\ call.pc = "done") =>
    /\ \A p \in Rows(permissions) :
         (p.teamId = call.teamId /\ p.deletedAt = NULL) =>
           \E i \in 1..Len(call.entries) : call.entries[i].id = p.id
    /\ \A i \in 1..Len(call.entries) :
         call.entries[i].source =
           IF /\ call.entries[i].resourceType
                   = call.entries[i].sourceResourceType
              /\ call.entries[i].resourceId = call.entries[i].sourceResourceId
           THEN "direct" ELSE "inherited"

====
